---- MODULE Spec2Model ----
(***************************************************************************)
(* A model of the host payment processor of Sia                            *)
(* (modules/host/payment.go): ProcessPayment and its two payment methods,  *)
(* staticPayByEphemeralAccount and managedPayByContract, run by concurrent *)
(* stream handlers against the host's storage obligations, the obligation  *)
(* locks, the account manager and the block height.                        *)
(***************************************************************************)
EXTENDS Integers, Sequences, FiniteSets, TLC

\* The size of a sector in bytes (scaled down) and the largest number of
\* roots of a sector cache.
SectorSize == 2
MaxRoots == 3

(***************************************************************************)
(* Bounds of the model.                                                    *)
(***************************************************************************)
\* Currency values range over 0..MaxCur.
MaxCur == 1
\* Revision numbers a request can carry range over 1..MaxRev.
MaxRev == 3
\* The block height stops growing at MaxHeight.
MaxHeight == 2

Currency == 0 .. MaxCur
RevisionNumbers == 1 .. MaxRev

\* The goroutines that serve one stream each.
Handlers == {"h1", "h2"}
NoHandler == "free"

\* Contract ids: two with a regular obligation, one whose obligation holds
\* no revision, one the host has no obligation for.
FC1 == "fc1"
FC2 == "fc2"
FCNoRevision == "fcNoRev"
FCUnknown == "fcUnknown"
FCIDs == {FC1, FC2, FCNoRevision, FCUnknown}

\* Ephemeral accounts.
Accounts == {"acc1"}

\* Payment method specifiers of the PaymentRequest header.
PayByEphemeralAccount == "PayByEphemAcc"
PayByContract == "PayByContract"
UnknownPaymentMethod == "PayByUnknown"
PaymentTypes == {PayByEphemeralAccount, PayByContract, UnknownPaymentMethod}

\* The zero values of record-typed locals.
Nil == [nil |-> TRUE]
ZeroCurrency == 0
EmptyAccountID == ""

VARIABLES
    storageObligations,        \* the host's persisted obligations, by contract id
    lockedStorageObligations,  \* the obligation locks: contract id -> holder
    blockHeight,               \* the host's block height
    balances,                  \* the account manager's balances
    pc,                        \* each handler's position
    pr,                        \* the PaymentRequest header a handler has read
    frame,                     \* the locals of the payment method a handler runs
    deferred,                  \* the deferred unlocks of a handler
    reads,                     \* number of objects a handler has read from its stream
    out,                       \* the objects a handler has written to its stream
    result                     \* what ProcessPayment returned

\* The variables of the payment processor.
paymentVars == <<storageObligations, lockedStorageObligations, blockHeight, balances,
                 pc, pr, frame, deferred, reads, out, result>>

\* The sector cache of a running program (the sectors object), the list of
\* roots its creator passed to newSectors, and the host's sector store.
VARIABLES
    sectorsRemoved,            \* sectors.sectorsRemoved: a set of roots
    sectorsGained,             \* sectors.sectorsGained: root -> sector data
    merkleRoots,               \* sectors.merkleRoots: the roots the slice shows
    aliased,                   \* merkleRoots still points into the caller's array
    callerArray,               \* the backing array of the caller's list of roots
    callerLen,                 \* the length of the caller's list of roots
    ret,                       \* the last call on the cache and what it returned
    plainRoots                 \* a plain sequence the same calls are applied to

cacheVars == <<sectorsRemoved, sectorsGained, merkleRoots, aliased, callerArray,
               callerLen, ret, plainRoots>>

\* The program that owns the cache: the output of its last instruction and
\* its ProgramData object.
VARIABLES
    output,                    \* the output of the last instruction executed
    programData                \* the ProgramData object and its fetch thread

programVars == <<output, programData>>

\* The renter's skyfile layer: its blocklist, its thread group, the paths of
\* its filesystem that hold a siafile, and the last call made on it.
VARIABLES
    staticSkynetBlocklist,     \* the hashes of the blocked Merkle roots
    tgStopped,                 \* the renter's thread group has been stopped
    siafiles,                  \* the SiaPaths at which there is a siafile
    call                       \* the last skyfile call: its steps and returns

skyVars == <<staticSkynetBlocklist, tgStopped, siafiles, call>>

\* The miner and its API: the block the miner is working on, and what the
\* block GET handler wrote last.
VARIABLES
    unsolvedBlock,             \* the block the miner assembles
    written                    \* the block served last and the JSON written for it

minerVars == <<unsolvedBlock, written>>

vars == <<paymentVars, cacheVars, programVars, skyVars, minerVars>>

(***************************************************************************)
(* types: currencies, outputs, revisions                                    *)
(***************************************************************************)
\* Currency.Sub: a subtraction that would go negative yields zero (and
\* reports a critical error).
Sub(x, y) == IF x >= y THEN x - y ELSE ZeroCurrency

SiacoinOutput(v, uh) == [Value |-> v, UnlockHash |-> uh]

\* The payout accessors of a revision: valid outputs are (renter, host),
\* missed outputs are (renter, host, void).
ValidRenterPayout(rev) == rev.NewValidProofOutputs[1].Value
ValidHostPayout(rev) == rev.NewValidProofOutputs[2].Value
MissedRenterOutput(rev) == rev.NewMissedProofOutputs[1]
MissedHostOutput(rev) == rev.NewMissedProofOutputs[2]
MissedVoidOutput(rev) == rev.NewMissedProofOutputs[3]

\* The revision a contract starts with.
InitialRevision(fcid) ==
    [ParentID |-> fcid,
     UnlockConditions |-> "uc",
     NewRevisionNumber |-> 1,
     NewFileSize |-> 0,
     NewFileMerkleRoot |-> "root",
     NewWindowStart |-> 1,
     NewWindowEnd |-> 1,
     NewValidProofOutputs |-> <<SiacoinOutput(1, "renter"), SiacoinOutput(0, "host")>>,
     NewMissedProofOutputs |-> <<SiacoinOutput(1, "renter"), SiacoinOutput(1, "host"),
                                 SiacoinOutput(0, "void")>>,
     NewUnlockHash |-> "uh"]

TransactionSignature(parent, index, sig) ==
    [ParentID |-> parent,
     CoveredFields |-> [FileContractRevisions |-> <<0>>],
     PublicKeyIndex |-> index,
     Signature |-> sig]

\* The host's signature of a revision.
HostSignatureOf(rev) == [signer |-> "host", over |-> rev]

InitialObligation(fcid) ==
    [RevisionTransactionSet |->
        <<[FileContractRevisions |-> <<InitialRevision(fcid)>>,
           TransactionSignatures |->
              <<TransactionSignature(fcid, 0, "renterSig0"),
                TransactionSignature(fcid, 1, HostSignatureOf(InitialRevision(fcid)))>>]>>]

(***************************************************************************)
(* The storage obligation, its lock and its most recent revision           *)
(***************************************************************************)
\* managedGetStorageObligation: the obligation persisted for fcid, if any.
HasStorageObligation(fcid) == storageObligations[fcid] # Nil

\* storageObligation.recentRevision: the revision of the last transaction of
\* the revision transaction set; an error when the set is empty.
HasRecentRevision(ob) == Len(ob.RevisionTransactionSet) > 0
recentRevision(ob) ==
    ob.RevisionTransactionSet[Len(ob.RevisionTransactionSet)].FileContractRevisions[1]

\* managedLockStorageObligation blocks until the lock of fcid is free and
\* then holds it for the handler.
CanLockStorageObligation(fcid) == lockedStorageObligations[fcid] = NoHandler
managedLockStorageObligation(locks, fcid, h) == [locks EXCEPT ![fcid] = h]

\* managedUnlockStorageObligation frees the lock of fcid.
managedUnlockStorageObligation(locks, fcid) == [locks EXCEPT ![fcid] = NoHandler]

\* The deferred calls of a handler, run when its function returns or panics.
RECURSIVE RunDeferred(_, _)
RunDeferred(locks, fcids) ==
    IF fcids = <<>> THEN locks
    ELSE RunDeferred(managedUnlockStorageObligation(locks, Head(fcids)), Tail(fcids))

(***************************************************************************)
(* Requests                                                                *)
(***************************************************************************)
PayByContractRequest(fcid, rn, valid, missed, sig) ==
    [ContractID |-> fcid,
     NewRevisionNumber |-> rn,
     NewValidProofValues |-> valid,
     NewMissedProofValues |-> missed,
     Signature |-> sig]

\* Value vectors of the length of a contract's outputs, and one shorter and
\* one longer vector of each kind.
ValidValueVectors == [1 .. 2 -> Currency] \cup {<<0>>, <<0, 0, 0>>}
MissedValueVectors == [1 .. 3 -> Currency] \cup {<<0, 0>>, <<0, 0, 0, 0>>}

\* The requests of the sequential specification: every request on FC1, and
\* one request on each contract without a usable obligation.
Requests ==
    {PayByContractRequest(FC1, rn, v, m, "renterSig") :
        rn \in RevisionNumbers, v \in ValidValueVectors, m \in MissedValueVectors}
    \cup {PayByContractRequest(fcid, 2, <<0, 1>>, <<1, 0, 1>>, "renterSig") :
            fcid \in {FCNoRevision, FCUnknown}}

\* The requests of the concurrent specification: on both contracts, a
\* payment of one coin moving one coin of collateral (a revision that moves
\* nothing once it has been paid), one request on each contract without a
\* usable obligation, and a request with too many values.
ConcurrentRequests ==
    {PayByContractRequest(fcid, rn, vm[1], vm[2], "renterSig") :
        fcid \in {FC1, FC2}, rn \in 2 .. MaxRev,
        vm \in {<<(<<0, 1>>), (<<1, 0, 1>>)>>}}
    \cup {PayByContractRequest(fcid, 2, <<0, 1>>, <<1, 0, 1>>, "renterSig") :
            fcid \in {FCNoRevision, FCUnknown}}
    \cup {PayByContractRequest(FC1, 2, <<0, 1, 0>>, <<1, 0, 1>>, "renterSig")}

WithdrawalMessage(account, amount, expiry) ==
    [Account |-> account, Amount |-> amount, Expiry |-> expiry]

PayByEphemeralAccountRequest(msg, sig) ==
    [Message |-> msg, Signature |-> sig, Priority |-> 0]

EphemeralAccountRequests ==
    {PayByEphemeralAccountRequest(WithdrawalMessage(a, amt, e), sig) :
        a \in Accounts, amt \in Currency, e \in {1, MaxHeight},
        sig \in {"validSig", "badSig"}}

(***************************************************************************)
(* The account manager                                                     *)
(***************************************************************************)
\* callWithdraw: why a withdrawal fails, the empty set when it succeeds.
WithdrawErrors(msg, sig, bh) ==
    (IF sig # "validSig" THEN {"ErrWithdrawalInvalidSignature"} ELSE {})
    \cup (IF msg.Expiry < bh THEN {"ErrWithdrawalExpired"} ELSE {})
    \cup (IF balances[msg.Account] < msg.Amount THEN {"ErrBalanceInsufficient"} ELSE {})

callWithdraw(bal, msg) == [bal EXCEPT ![msg.Account] = @ - msg.Amount]

(***************************************************************************)
(* Building, verifying and signing a payment revision                      *)
(***************************************************************************)
\* revisionFromRequest indexes the recent revision's outputs by the
\* positions of the request's values: it panics (index out of range) when
\* the request has more values than the recent revision has outputs.
revisionFromRequestPanics(recent, pbcr) ==
    \/ Len(pbcr.NewValidProofValues) > Len(recent.NewValidProofOutputs)
    \/ Len(pbcr.NewMissedProofValues) > Len(recent.NewMissedProofOutputs)

\* A revision builder that does not copy the unlock hashes of the recent
\* revision's outputs.
revisionFromRequest_NoUnlockHash(recent, pbcr) ==
    [recent EXCEPT
        !.NewRevisionNumber = pbcr.NewRevisionNumber,
        !.NewValidProofOutputs =
            [i \in 1 .. Len(pbcr.NewValidProofValues) |->
                SiacoinOutput(pbcr.NewValidProofValues[i], "")],
        !.NewMissedProofOutputs =
            [i \in 1 .. Len(pbcr.NewMissedProofValues) |->
                SiacoinOutput(pbcr.NewMissedProofValues[i], "")]]

revisionFromRequest(recent, pbcr) ==
    [recent EXCEPT
        !.NewRevisionNumber = pbcr.NewRevisionNumber,
        !.NewValidProofOutputs =
            [i \in 1 .. Len(pbcr.NewValidProofValues) |->
                SiacoinOutput(pbcr.NewValidProofValues[i],
                              recent.NewValidProofOutputs[i].UnlockHash)],
        !.NewMissedProofOutputs =
            [i \in 1 .. Len(pbcr.NewMissedProofValues) |->
                SiacoinOutput(pbcr.NewMissedProofValues[i],
                              recent.NewMissedProofOutputs[i].UnlockHash)]]

signatureFromRequest(recent, pbcr) ==
    TransactionSignature(recent.ParentID, 0, pbcr.Signature)

\* verifyPaymentRevision: the reasons for which the payment revision is
\* refused, the empty set when it is accepted.
OutputCountsMatch(current, payment) ==
    /\ Len(payment.NewValidProofOutputs) = Len(current.NewValidProofOutputs)
    /\ Len(payment.NewMissedProofOutputs) = Len(current.NewMissedProofOutputs)

RecipientsMatch(current, payment) ==
    /\ \A i \in 1 .. Len(current.NewValidProofOutputs) :
          payment.NewValidProofOutputs[i].UnlockHash
              = current.NewValidProofOutputs[i].UnlockHash
    /\ \A i \in 1 .. Len(current.NewMissedProofOutputs) :
          payment.NewMissedProofOutputs[i].UnlockHash
              = current.NewMissedProofOutputs[i].UnlockHash

ValueErrors(current, payment, expectedExchange) ==
    (IF ValidRenterPayout(payment) > ValidRenterPayout(current)
        THEN {"ErrHighRenterValidOutput"}
        ELSE IF ValidRenterPayout(current) - ValidRenterPayout(payment) < expectedExchange
        THEN {"ErrHighRenterValidOutput"} ELSE {})
    \cup
    (IF ValidHostPayout(payment) < ValidHostPayout(current)
        THEN {"ErrLowHostValidOutput"}
        ELSE IF ValidHostPayout(payment) - ValidHostPayout(current)
                  # ValidRenterPayout(current) - ValidRenterPayout(payment)
        THEN {"ErrLowHostValidOutput"} ELSE {})
    \cup
    (IF MissedHostOutput(payment).Value > MissedHostOutput(current).Value
        THEN {"ErrHighHostMissedOutput"}
        ELSE IF MissedVoidOutput(payment).Value < MissedVoidOutput(current).Value
        THEN {"ErrLowVoidOutput"}
        ELSE IF MissedVoidOutput(payment).Value - MissedVoidOutput(current).Value
                  # MissedHostOutput(current).Value - MissedHostOutput(payment).Value
        THEN {"ErrLowVoidOutput"} ELSE {})

verifyPaymentRevision(current, payment, bh, expectedExchange) ==
    (IF payment.NewRevisionNumber <= current.NewRevisionNumber
        THEN {"ErrBadRevisionNumber"} ELSE {})
    \cup (IF bh > current.NewWindowEnd THEN {"ErrLateRevision"} ELSE {})
    \cup (IF ~OutputCountsMatch(current, payment)
            THEN {"ErrBadContractOutputCounts"}
            ELSE (IF ~RecipientsMatch(current, payment)
                     THEN {"ErrRecipientChanged"} ELSE {})
                 \cup ValueErrors(current, payment, expectedExchange))

\* A verification that drops the error of verifyPaymentRevision.
verifyPayByContractRevision_NoError(current, payment, bh) ==
    [err |-> {},
     amount |-> IF Len(payment.NewValidProofOutputs) >= 2
                THEN Sub(ValidHostPayout(payment), ValidHostPayout(current))
                ELSE ZeroCurrency,
     collateral |-> IF Len(payment.NewMissedProofOutputs) >= 2
                    THEN Sub(MissedHostOutput(current).Value,
                             MissedHostOutput(payment).Value)
                    ELSE ZeroCurrency]

\* A verification that subtracts the missed host outputs the other way
\* round.
verifyPayByContractRevision_Swapped(current, payment, bh) ==
    LET errs == verifyPaymentRevision(current, payment, bh, ZeroCurrency)
    IN  IF errs # {}
        THEN [err |-> errs, amount |-> ZeroCurrency, collateral |-> ZeroCurrency]
        ELSE [err |-> {},
              amount |-> Sub(ValidHostPayout(payment), ValidHostPayout(current)),
              collateral |-> Sub(MissedHostOutput(payment).Value,
                                 MissedHostOutput(current).Value)]

verifyPayByContractRevision(current, payment, bh) ==
    LET errs == verifyPaymentRevision(current, payment, bh, ZeroCurrency)
    IN  IF errs # {}
        THEN [err |-> errs, amount |-> ZeroCurrency, collateral |-> ZeroCurrency]
        ELSE [err |-> {},
              amount |-> Sub(ValidHostPayout(payment), ValidHostPayout(current)),
              collateral |-> Sub(MissedHostOutput(current).Value,
                                 MissedHostOutput(payment).Value)]

\* createRevisionSignature: the transaction of the revision with the
\* renter's and the host's signature.
createRevisionSignature(rev, renterSignature) ==
    [FileContractRevisions |-> <<rev>>,
     TransactionSignatures |->
        <<renterSignature,
          TransactionSignature(rev.ParentID, 1, HostSignatureOf(rev))>>]

\* Transaction.HostSignature
HostSignature(txn) == txn.TransactionSignatures[2]

newPaymentDetails(account, amountPaid, addedCollateral) ==
    [account |-> account, amount |-> amountPaid, addedCollateral |-> addedCollateral]

PayByContractResponse(sig) == [Signature |-> sig]
PayByEphemeralAccountResponse(amount) == [Amount |-> amount]

(***************************************************************************)
(* What ProcessPayment returns                                             *)
(***************************************************************************)
Success(details) == [err |-> "nil", causes |-> {}, panic |-> FALSE, details |-> details]
Failure(context, causes) ==
    [err |-> context, causes |-> causes, panic |-> FALSE, details |-> Nil]
Panic(what) == [err |-> what, causes |-> {}, panic |-> TRUE, details |-> Nil]

\* A return that does not run the deferred calls.
Return_NoDeferredCalls(h, r) ==
    /\ pc' = [pc EXCEPT ![h] = "done"]
    /\ result' = [result EXCEPT ![h] = r]
    /\ lockedStorageObligations' = lockedStorageObligations
    /\ deferred' = [deferred EXCEPT ![h] = <<>>]

\* A handler's function returns r: its deferred calls run.
Return(h, r) ==
    /\ pc' = [pc EXCEPT ![h] = "done"]
    /\ result' = [result EXCEPT ![h] = r]
    /\ lockedStorageObligations' = RunDeferred(lockedStorageObligations, deferred[h])
    /\ deferred' = [deferred EXCEPT ![h] = <<>>]

\* The locals of a payment method before it has set any.
InitialFrame ==
    [req |-> Nil, so |-> Nil, currentRevision |-> Nil,
     paymentRevision |-> Nil, amount |-> ZeroCurrency, collateral |-> ZeroCurrency,
     txn |-> Nil]

(***************************************************************************)
(* ProcessPayment                                                          *)
(***************************************************************************)
\* A dispatch that sends every payment method other than
\* PayByEphemeralAccount to managedPayByContract.
PaymentMethodOf_NoUnknown(type) ==
    IF type = PayByEphemeralAccount THEN "staticPayByEphemeralAccount"
    ELSE "managedPayByContract"

\* The function that processes a payment of the given method.
PaymentMethodOf(type) ==
    IF type = PayByEphemeralAccount THEN "staticPayByEphemeralAccount"
    ELSE IF type = PayByContract THEN "managedPayByContract"
    ELSE "ErrUnknownPaymentMethod"

\* Reads the PaymentRequest header and dispatches on the payment method.
ProcessPayment(h, types) ==
    /\ pc[h] = "ProcessPayment"
    /\ \/ \* RPCRead fails
          /\ Return(h, Failure("Could not read payment request", {}))
          /\ UNCHANGED <<pr, reads>>
       \/ \E type \in types :
            /\ pr' = [pr EXCEPT ![h] = type]
            /\ reads' = [reads EXCEPT ![h] = @ + 1]
            /\ IF PaymentMethodOf(type) # "ErrUnknownPaymentMethod"
               THEN /\ pc' = [pc EXCEPT ![h] = PaymentMethodOf(type)]
                    /\ UNCHANGED <<result, lockedStorageObligations, deferred>>
               ELSE Return(h, Failure("Could not handle payment method",
                                      {"ErrUnknownPaymentMethod"}))
    /\ UNCHANGED <<storageObligations, blockHeight, balances, frame, out>>
    /\ UNCHANGED <<cacheVars, programVars, skyVars, minerVars>>

(***************************************************************************)
(* staticPayByEphemeralAccount                                             *)
(***************************************************************************)
\* Reads the PayByEphemeralAccountRequest.
EA_ReadRequest(h) ==
    /\ pc[h] = "staticPayByEphemeralAccount"
    /\ \/ /\ Return(h, Failure("Could not read PayByEphemeralAccountRequest", {}))
          /\ UNCHANGED <<frame, reads>>
       \/ \E req \in EphemeralAccountRequests :
            /\ frame' = [frame EXCEPT ![h].req = req]
            /\ reads' = [reads EXCEPT ![h] = @ + 1]
            /\ pc' = [pc EXCEPT ![h] = "ea_withdraw"]
            /\ UNCHANGED <<result, lockedStorageObligations, deferred>>
    /\ UNCHANGED <<storageObligations, blockHeight, balances, pr, out>>
    /\ UNCHANGED <<cacheVars, programVars, skyVars, minerVars>>

\* A withdrawal step that takes the amount off the balance before it
\* reports why the withdrawal fails.
EA_Withdraw_BeforeCheck(h) ==
    /\ pc[h] = "ea_withdraw"
    /\ LET req == frame[h].req
           errs == WithdrawErrors(req.Message, req.Signature, blockHeight)
       IN  /\ balances' = callWithdraw(balances, req.Message)
           /\ IF errs # {}
              THEN Return(h, Failure("Withdraw failed", errs))
              ELSE /\ pc' = [pc EXCEPT ![h] = "ea_respond"]
                   /\ UNCHANGED <<result, lockedStorageObligations, deferred>>
    /\ UNCHANGED <<storageObligations, blockHeight, pr, frame, reads, out>>
    /\ UNCHANGED <<cacheVars, programVars, skyVars, minerVars>>

\* Has the account manager withdraw the amount of the message.
EA_Withdraw(h) ==
    /\ pc[h] = "ea_withdraw"
    /\ LET req == frame[h].req
           errs == WithdrawErrors(req.Message, req.Signature, blockHeight)
       IN  IF errs # {}
           THEN /\ Return(h, Failure("Withdraw failed", errs))
                /\ UNCHANGED balances
           ELSE /\ balances' = callWithdraw(balances, req.Message)
                /\ pc' = [pc EXCEPT ![h] = "ea_respond"]
                /\ UNCHANGED <<result, lockedStorageObligations, deferred>>
    /\ UNCHANGED <<storageObligations, blockHeight, pr, frame, reads, out>>
    /\ UNCHANGED <<cacheVars, programVars, skyVars, minerVars>>

\* A response that reports the withdrawn amount as moved collateral too.
EA_Respond_Collateral(h) ==
    /\ pc[h] = "ea_respond"
    /\ LET req == frame[h].req
       IN  \/ /\ Return(h, Failure("Could not send PayByEphemeralAccountResponse", {}))
              /\ UNCHANGED out
           \/ /\ out' = [out EXCEPT ![h] =
                            Append(@, PayByEphemeralAccountResponse(req.Message.Amount))]
              /\ Return(h, Success(newPaymentDetails(req.Message.Account,
                                                     req.Message.Amount,
                                                     req.Message.Amount)))
    /\ UNCHANGED <<storageObligations, blockHeight, balances, pr, frame, reads>>
    /\ UNCHANGED <<cacheVars, programVars, skyVars, minerVars>>

\* Writes the PayByEphemeralAccountResponse and returns the payment details.
EA_Respond(h) ==
    /\ pc[h] = "ea_respond"
    /\ LET req == frame[h].req
       IN  \/ /\ Return(h, Failure("Could not send PayByEphemeralAccountResponse", {}))
              /\ UNCHANGED out
           \/ /\ out' = [out EXCEPT ![h] =
                            Append(@, PayByEphemeralAccountResponse(req.Message.Amount))]
              /\ Return(h, Success(newPaymentDetails(req.Message.Account,
                                                     req.Message.Amount, ZeroCurrency)))
    /\ UNCHANGED <<storageObligations, blockHeight, balances, pr, frame, reads>>
    /\ UNCHANGED <<cacheVars, programVars, skyVars, minerVars>>

(***************************************************************************)
(* managedPayByContract                                                    *)
(***************************************************************************)
\* Reads the PayByContractRequest.
PBC_ReadRequest(h, requests) ==
    /\ pc[h] = "managedPayByContract"
    /\ \/ /\ Return(h, Failure("Could not read PayByContractRequest", {}))
          /\ UNCHANGED <<frame, reads>>
       \/ \E req \in requests :
            /\ frame' = [frame EXCEPT ![h].req = req]
            /\ reads' = [reads EXCEPT ![h] = @ + 1]
            /\ pc' = [pc EXCEPT ![h] = "pbc_lock"]
            /\ UNCHANGED <<result, lockedStorageObligations, deferred>>
    /\ UNCHANGED <<storageObligations, blockHeight, balances, pr, out>>
    /\ UNCHANGED <<cacheVars, programVars, skyVars, minerVars>>

\* A lock that does not wait for the holder to release it.
PBC_Lock_NotExclusive(h) ==
    /\ pc[h] = "pbc_lock"
    /\ LET fcid == frame[h].req.ContractID
       IN  /\ lockedStorageObligations' =
                 managedLockStorageObligation(lockedStorageObligations, fcid, h)
           /\ deferred' = [deferred EXCEPT ![h] = <<fcid>> \o @]
    /\ pc' = [pc EXCEPT ![h] = "pbc_get"]
    /\ UNCHANGED <<storageObligations, blockHeight, balances, pr, frame, reads, out,
                   result>>
    /\ UNCHANGED <<cacheVars, programVars, skyVars, minerVars>>

\* A lock whose unlock is called at once instead of being deferred.
PBC_Lock_UnlocksAtOnce(h) ==
    /\ pc[h] = "pbc_lock"
    /\ CanLockStorageObligation(frame[h].req.ContractID)
    /\ pc' = [pc EXCEPT ![h] = "pbc_get"]
    /\ UNCHANGED <<storageObligations, lockedStorageObligations, blockHeight, balances,
                   pr, frame, deferred, reads, out, result>>
    /\ UNCHANGED <<cacheVars, programVars, skyVars, minerVars>>

\* A lock whose unlock is never deferred.
PBC_Lock_NoDefer(h) ==
    /\ pc[h] = "pbc_lock"
    /\ LET fcid == frame[h].req.ContractID
       IN  /\ CanLockStorageObligation(fcid)
           /\ lockedStorageObligations' =
                 managedLockStorageObligation(lockedStorageObligations, fcid, h)
    /\ pc' = [pc EXCEPT ![h] = "pbc_get"]
    /\ UNCHANGED <<storageObligations, blockHeight, balances, pr, frame, deferred,
                   reads, out, result>>
    /\ UNCHANGED <<cacheVars, programVars, skyVars, minerVars>>

\* Locks the storage obligation and defers its unlock.
PBC_Lock(h) ==
    /\ pc[h] = "pbc_lock"
    /\ LET fcid == frame[h].req.ContractID
       IN  /\ CanLockStorageObligation(fcid)
           /\ lockedStorageObligations' =
                 managedLockStorageObligation(lockedStorageObligations, fcid, h)
           /\ deferred' = [deferred EXCEPT ![h] = <<fcid>> \o @]
    /\ pc' = [pc EXCEPT ![h] = "pbc_get"]
    /\ UNCHANGED <<storageObligations, blockHeight, balances, pr, frame, reads, out,
                   result>>
    /\ UNCHANGED <<cacheVars, programVars, skyVars, minerVars>>

\* A step that reads a further object from the stream once the obligation is
\* locked.
PBC_GetObligation_ReadsStream(h) ==
    /\ pc[h] = "pbc_get"
    /\ LET fcid == frame[h].req.ContractID
           ob == storageObligations[fcid]
       IN  IF ~HasStorageObligation(fcid)
           THEN /\ Return(h, Failure("Could not fetch storage obligation", {}))
                /\ UNCHANGED frame
           ELSE /\ frame' = [frame EXCEPT ![h].so = ob]
                /\ pc' = [pc EXCEPT ![h] = "pbc_verify"]
                /\ UNCHANGED <<result, lockedStorageObligations, deferred>>
    /\ reads' = [reads EXCEPT ![h] = @ + 1]
    /\ UNCHANGED <<storageObligations, blockHeight, balances, pr, out>>
    /\ UNCHANGED <<cacheVars, programVars, skyVars, minerVars>>

\* Gets the storage obligation.
PBC_GetObligation(h) ==
    /\ pc[h] = "pbc_get"
    /\ LET fcid == frame[h].req.ContractID
           ob == storageObligations[fcid]
       IN  IF ~HasStorageObligation(fcid)
           THEN /\ Return(h, Failure("Could not fetch storage obligation", {}))
                /\ UNCHANGED frame
           ELSE /\ frame' = [frame EXCEPT ![h].so = ob]
                /\ pc' = [pc EXCEPT ![h] = "pbc_verify"]
                /\ UNCHANGED <<result, lockedStorageObligations, deferred>>
    /\ UNCHANGED <<storageObligations, blockHeight, balances, pr, reads, out>>
    /\ UNCHANGED <<cacheVars, programVars, skyVars, minerVars>>

\* Reads the block height, extracts the obligation's most recent revision,
\* builds the payment revision from the request and verifies it.
PBC_Verify(h) ==
    /\ pc[h] = "pbc_verify"
    /\ LET f == frame[h]
           bh == blockHeight
       IN  IF ~HasRecentRevision(f.so)
           THEN /\ Return(h, Failure("Could not find the most recent revision", {}))
                /\ UNCHANGED frame
           ELSE IF revisionFromRequestPanics(recentRevision(f.so), f.req)
           THEN /\ Return(h, Panic("index out of range"))
                /\ frame' = [frame EXCEPT ![h].currentRevision = recentRevision(f.so)]
           ELSE LET currentRevision == recentRevision(f.so)
                    paymentRevision == revisionFromRequest(currentRevision, f.req)
                    v == verifyPayByContractRevision(currentRevision, paymentRevision, bh)
                IN  IF v.err # {}
                    THEN /\ Return(h, Failure("Invalid payment revision", v.err))
                         /\ frame' = [frame EXCEPT ![h].currentRevision = currentRevision,
                                                   ![h].paymentRevision = paymentRevision]
                    ELSE /\ frame' = [frame EXCEPT ![h].currentRevision = currentRevision,
                                                   ![h].paymentRevision = paymentRevision,
                                                   ![h].amount = v.amount,
                                                   ![h].collateral = v.collateral]
                         /\ pc' = [pc EXCEPT ![h] = "pbc_sign"]
                         /\ UNCHANGED <<result, lockedStorageObligations, deferred>>
    /\ UNCHANGED <<storageObligations, blockHeight, balances, pr, reads, out>>
    /\ UNCHANGED <<cacheVars, programVars, skyVars, minerVars>>

\* A signing step that stores the host's signature before the renter's.
PBC_Sign_HostFirst(h) ==
    /\ pc[h] = "pbc_sign"
    /\ LET f == frame[h]
           renterSignature == signatureFromRequest(f.currentRevision, f.req)
           txn == createRevisionSignature(f.paymentRevision, renterSignature)
       IN  \/ /\ Return(h, Failure("Could not create revision signature", {}))
              /\ UNCHANGED frame
           \/ /\ frame' = [frame EXCEPT
                    ![h].txn = txn,
                    ![h].so.RevisionTransactionSet =
                        <<[FileContractRevisions |-> <<f.paymentRevision>>,
                           TransactionSignatures |->
                              <<txn.TransactionSignatures[2], renterSignature>>]>>]
              /\ pc' = [pc EXCEPT ![h] = "pbc_modify"]
              /\ UNCHANGED <<result, lockedStorageObligations, deferred>>
    /\ UNCHANGED <<storageObligations, blockHeight, balances, pr, reads, out>>
    /\ UNCHANGED <<cacheVars, programVars, skyVars, minerVars>>

\* Signs the revision and puts the signed transaction in the handler's copy
\* of the obligation.
PBC_Sign(h) ==
    /\ pc[h] = "pbc_sign"
    /\ LET f == frame[h]
           renterSignature == signatureFromRequest(f.currentRevision, f.req)
           txn == createRevisionSignature(f.paymentRevision, renterSignature)
       IN  \/ /\ Return(h, Failure("Could not create revision signature", {}))
              /\ UNCHANGED frame
           \/ /\ frame' = [frame EXCEPT
                    ![h].txn = txn,
                    ![h].so.RevisionTransactionSet =
                        <<[FileContractRevisions |-> <<f.paymentRevision>>,
                           TransactionSignatures |->
                              <<renterSignature, txn.TransactionSignatures[2]>>]>>]
              /\ pc' = [pc EXCEPT ![h] = "pbc_modify"]
              /\ UNCHANGED <<result, lockedStorageObligations, deferred>>
    /\ UNCHANGED <<storageObligations, blockHeight, balances, pr, reads, out>>
    /\ UNCHANGED <<cacheVars, programVars, skyVars, minerVars>>

\* A persist step whose error is not checked.
PBC_Modify_IgnoresError(h) ==
    /\ pc[h] = "pbc_modify"
    /\ \/ UNCHANGED storageObligations
       \/ storageObligations' =
             [storageObligations EXCEPT ![frame[h].req.ContractID] = frame[h].so]
    /\ pc' = [pc EXCEPT ![h] = "pbc_respond"]
    /\ UNCHANGED <<result, lockedStorageObligations, deferred>>
    /\ UNCHANGED <<blockHeight, balances, pr, frame, reads, out>>
    /\ UNCHANGED <<cacheVars, programVars, skyVars, minerVars>>

\* A persist step that stores the obligation even when it reports an error.
PBC_Modify_StoresOnError(h) ==
    /\ pc[h] = "pbc_modify"
    /\ storageObligations' =
          [storageObligations EXCEPT ![frame[h].req.ContractID] = frame[h].so]
    /\ \/ Return(h, Failure("Could not modify storage obligation", {}))
       \/ /\ pc' = [pc EXCEPT ![h] = "pbc_respond"]
          /\ UNCHANGED <<result, lockedStorageObligations, deferred>>
    /\ UNCHANGED <<blockHeight, balances, pr, frame, reads, out>>
    /\ UNCHANGED <<cacheVars, programVars, skyVars, minerVars>>

\* managedModifyStorageObligation persists the handler's copy of the
\* obligation.
PBC_Modify(h) ==
    /\ pc[h] = "pbc_modify"
    /\ \/ /\ Return(h, Failure("Could not modify storage obligation", {}))
          /\ UNCHANGED storageObligations
       \/ /\ storageObligations' =
                [storageObligations EXCEPT ![frame[h].req.ContractID] = frame[h].so]
          /\ pc' = [pc EXCEPT ![h] = "pbc_respond"]
          /\ UNCHANGED <<result, lockedStorageObligations, deferred>>
    /\ UNCHANGED <<blockHeight, balances, pr, frame, reads, out>>
    /\ UNCHANGED <<cacheVars, programVars, skyVars, minerVars>>

\* Writes the PayByContractResponse with the host's signature and returns
\* the payment details.
PBC_Respond(h) ==
    /\ pc[h] = "pbc_respond"
    /\ LET f == frame[h]
       IN  \/ /\ Return(h, Failure("Could not send PayByContractResponse", {}))
              /\ UNCHANGED out
           \/ /\ out' = [out EXCEPT ![h] =
                    Append(@, PayByContractResponse(HostSignature(f.txn).Signature))]
              /\ Return(h, Success(newPaymentDetails(EmptyAccountID, f.amount,
                                                     f.collateral)))
    /\ UNCHANGED <<storageObligations, blockHeight, balances, pr, frame, reads>>
    /\ UNCHANGED <<cacheVars, programVars, skyVars, minerVars>>

(***************************************************************************)
(* The environment                                                         *)
(***************************************************************************)
\* A handler that has returned serves the next stream.
NewStream(h) ==
    /\ pc[h] = "done"
    /\ pc' = [pc EXCEPT ![h] = "ProcessPayment"]
    /\ pr' = [pr EXCEPT ![h] = "none"]
    /\ frame' = [frame EXCEPT ![h] = InitialFrame]
    /\ reads' = [reads EXCEPT ![h] = 0]
    /\ out' = [out EXCEPT ![h] = <<>>]
    /\ result' = [result EXCEPT ![h] = Nil]
    /\ UNCHANGED <<storageObligations, lockedStorageObligations, blockHeight, balances,
                   deferred>>
    /\ UNCHANGED <<cacheVars, programVars, skyVars, minerVars>>

\* The consensus set adds a block.
AdvanceBlockHeight ==
    /\ blockHeight < MaxHeight
    /\ blockHeight' = blockHeight + 1
    /\ UNCHANGED <<storageObligations, lockedStorageObligations, balances, pc, pr,
                   frame, deferred, reads, out, result>>
    /\ UNCHANGED <<cacheVars, programVars, skyVars, minerVars>>

(***************************************************************************)
(* The sector cache of a program: sector data, roots and the sector store  *)
(***************************************************************************)
\* The byte values of sector data.
Bytes == {0, 1}

\* The sector whose bytes are all b.
Sector(b) == [i \in 1 .. SectorSize |-> b]
SectorData == {Sector(b) : b \in Bytes}

\* Data one byte shorter and one byte longer than a sector.
ShortData == [i \in 1 .. SectorSize - 1 |-> 0]
LongData == [i \in 1 .. SectorSize + 1 |-> 0]
AppendInputs == SectorData \cup {ShortData, LongData}

\* crypto.MerkleRoot: the hash of the data; different data have different
\* roots.
MerkleRoot(data) == [leaves |-> data]
SectorRoots == {MerkleRoot(d) : d \in SectorData}

\* cachedMerkleRoot: the Merkle root of a list of sector roots.
cachedMerkleRoot(roots) == [list |-> roots]

\* crypto.Hash{} and a nil byte slice.
ZeroHash == [zero |-> TRUE]
NilData == <<>>

\* The roots of the sectors the host stores.
HostSectors == {MerkleRoot(Sector(0))}

\* Host.ReadSector: the sector of the root, an error when the host does not
\* store it.
HostReadSector(root) ==
    IF root \in HostSectors
    THEN [data |-> (CHOOSE d \in SectorData : MerkleRoot(d) = root), err |-> "nil"]
    ELSE [data |-> NilData, err |-> "could not find the desired sector"]

\* Go maps as functions: m[k] = v and delete(m, k).
MapSet(m, k, v) == [x \in DOMAIN m \cup {k} |-> IF x = k THEN v ELSE m[x]]
MapDelete(m, k) == [x \in DOMAIN m \ {k} |-> m[x]]
EmptyMap == [x \in {} |-> NilData]

\* The sectors object of the cache in the current state.
Cache ==
    [sectorsRemoved |-> sectorsRemoved,
     sectorsGained |-> sectorsGained,
     merkleRoots |-> merkleRoots]

\* The list of roots the caller of newSectors holds.
CallerRoots == SubSeq(callerArray, 1, callerLen)

newSectors(roots) ==
    [sectorsRemoved |-> {},
     sectorsGained |-> EmptyMap,
     merkleRoots |-> roots]

\* An append that leaves the root marked as removed.
appendSector_KeepsRemoved(s, sectorData) ==
    IF Len(sectorData) # SectorSize
    THEN [s |-> s, hash |-> ZeroHash, err |-> "trying to append data of length"]
    ELSE LET newRoot == MerkleRoot(sectorData)
             roots == Append(s.merkleRoots, newRoot)
         IN  [s |-> [sectorsRemoved |-> s.sectorsRemoved,
                     sectorsGained |-> MapSet(s.sectorsGained, newRoot, sectorData),
                     merkleRoots |-> roots],
              hash |-> cachedMerkleRoot(roots),
              err |-> "nil"]

\* An append that marks nothing as gained.
appendSector_NoGain(s, sectorData) ==
    IF Len(sectorData) # SectorSize
    THEN [s |-> s, hash |-> ZeroHash, err |-> "trying to append data of length"]
    ELSE LET newRoot == MerkleRoot(sectorData)
             roots == Append(s.merkleRoots, newRoot)
         IN  [s |-> [sectorsRemoved |-> s.sectorsRemoved \ {newRoot},
                     sectorsGained |-> s.sectorsGained,
                     merkleRoots |-> roots],
              hash |-> cachedMerkleRoot(roots),
              err |-> "nil"]

\* An append that does not check the length of the data.
appendSector_AnyLength(s, sectorData) ==
    LET newRoot == MerkleRoot(sectorData)
        roots == Append(s.merkleRoots, newRoot)
    IN  [s |-> [sectorsRemoved |-> s.sectorsRemoved \ {newRoot},
                sectorsGained |-> MapSet(s.sectorsGained, newRoot, sectorData),
                merkleRoots |-> roots],
         hash |-> cachedMerkleRoot(roots),
         err |-> "nil"]

\* appendSector: the cache after the call, the returned hash and the error.
appendSector(s, sectorData) ==
    IF Len(sectorData) # SectorSize
    THEN [s |-> s, hash |-> ZeroHash, err |-> "trying to append data of length"]
    ELSE LET newRoot == MerkleRoot(sectorData)
             roots == Append(s.merkleRoots, newRoot)
         IN  [s |-> [sectorsRemoved |-> s.sectorsRemoved \ {newRoot},
                     sectorsGained |-> MapSet(s.sectorsGained, newRoot, sectorData),
                     merkleRoots |-> roots],
              hash |-> cachedMerkleRoot(roots),
              err |-> "nil"]

\* The loop of dropSectors over the dropped roots, first to last.
RECURSIVE updateProgramCache(_, _)
updateProgramCache(s, droppedRoots) ==
    IF droppedRoots = <<>> THEN s
    ELSE LET droppedRoot == Head(droppedRoots)
             prs == droppedRoot \in DOMAIN s.sectorsGained
         IN  updateProgramCache(
                 IF prs
                 THEN [s EXCEPT !.sectorsGained = MapDelete(@, droppedRoot)]
                 ELSE [s EXCEPT !.sectorsRemoved = @ \cup {droppedRoot}],
                 Tail(droppedRoots))

\* A drop that cuts the first roots instead of the last.
dropSectors_DropsFirst(s, numSectorsDropped) ==
    LET oldNumSectors == Len(s.merkleRoots)
    IN  IF numSectorsDropped > oldNumSectors
        THEN [s |-> s, hash |-> ZeroHash, err |-> "trying to drop more sectors"]
        ELSE LET droppedRoots == SubSeq(s.merkleRoots, 1, numSectorsDropped)
                 roots == SubSeq(s.merkleRoots, numSectorsDropped + 1, oldNumSectors)
             IN  [s |-> updateProgramCache([s EXCEPT !.merkleRoots = roots],
                                           droppedRoots),
                  hash |-> cachedMerkleRoot(roots),
                  err |-> "nil"]

\* A drop that marks every dropped root as removed.
dropSectors_AlwaysRemoved(s, numSectorsDropped) ==
    LET oldNumSectors == Len(s.merkleRoots)
    IN  IF numSectorsDropped > oldNumSectors
        THEN [s |-> s, hash |-> ZeroHash, err |-> "trying to drop more sectors"]
        ELSE LET newNumSectors == oldNumSectors - numSectorsDropped
                 droppedRoots == SubSeq(s.merkleRoots, newNumSectors + 1, oldNumSectors)
                 roots == SubSeq(s.merkleRoots, 1, newNumSectors)
             IN  [s |-> [s EXCEPT !.merkleRoots = roots,
                                  !.sectorsRemoved =
                                      @ \cup {droppedRoots[i] : i \in DOMAIN droppedRoots}],
                  hash |-> cachedMerkleRoot(roots),
                  err |-> "nil"]

\* dropSectors: the cache after the call, the returned hash and the error.
dropSectors(s, numSectorsDropped) ==
    LET oldNumSectors == Len(s.merkleRoots)
    IN  IF numSectorsDropped > oldNumSectors
        THEN [s |-> s, hash |-> ZeroHash, err |-> "trying to drop more sectors"]
        ELSE LET newNumSectors == oldNumSectors - numSectorsDropped
                 droppedRoots == SubSeq(s.merkleRoots, newNumSectors + 1, oldNumSectors)
                 roots == SubSeq(s.merkleRoots, 1, newNumSectors)
             IN  [s |-> updateProgramCache([s EXCEPT !.merkleRoots = roots],
                                           droppedRoots),
                  hash |-> cachedMerkleRoot(roots),
                  err |-> "nil"]

\* swapSectors: exchanges the roots at two offsets (counted from 0) below
\* the number of roots.
swapSectors(s, offset1, offset2) ==
    IF offset1 >= Len(s.merkleRoots) \/ offset2 >= Len(s.merkleRoots)
    THEN [s |-> s, hash |-> ZeroHash, err |-> "sector offset out of range"]
    ELSE LET roots == [s.merkleRoots EXCEPT ![offset1 + 1] = s.merkleRoots[offset2 + 1],
                                            ![offset2 + 1] = s.merkleRoots[offset1 + 1]]
         IN  [s |-> [s EXCEPT !.merkleRoots = roots],
              hash |-> cachedMerkleRoot(roots),
              err |-> "nil"]

\* A scan that looks for the root among the gained sectors.
hasSector_InGained(s, sectorRoot) == sectorRoot \in DOMAIN s.sectorsGained

hasSector(s, sectorRoot) ==
    \E i \in 1 .. Len(s.merkleRoots) : s.merkleRoots[i] = sectorRoot

\* readSector: the data, where it was read from, and the error.
readSector(s, sectorRoot) ==
    IF ~hasSector(s, sectorRoot)
    THEN [data |-> NilData, from |-> "nowhere", err |-> "root not found in list of roots"]
    ELSE IF sectorRoot \in DOMAIN s.sectorsGained
    THEN [data |-> s.sectorsGained[sectorRoot], from |-> "sectorsGained", err |-> "nil"]
    ELSE [data |-> HostReadSector(sectorRoot).data, from |-> "host",
          err |-> HostReadSector(sectorRoot).err]

\* What a call returned: a hash, a boolean or sector data, with an error.
Returns(hash, has, data, err) == [hash |-> hash, has |-> has, data |-> data, err |-> err]
ReturnsHash(hash, err) == Returns(hash, FALSE, NilData, err)
ReturnsBool(has) == Returns(ZeroHash, has, NilData, "nil")
ReturnsData(data, err) == Returns(ZeroHash, FALSE, data, err)

\* The cache after a call.
SetCache(s) ==
    /\ sectorsRemoved' = s.sectorsRemoved
    /\ sectorsGained' = s.sectorsGained
    /\ merkleRoots' = s.merkleRoots

\* The program creates its cache from the caller's list of roots; the cache
\* slice shares the caller's backing array.
NewSectors ==
    /\ SetCache(newSectors(CallerRoots))
    /\ aliased' = TRUE
    /\ ret' = ReturnsHash(ZeroHash, "nil")
    /\ plainRoots' = CallerRoots
    /\ UNCHANGED <<callerArray, callerLen>>
    /\ UNCHANGED <<paymentVars, programVars, skyVars, minerVars>>

\* append(s.merkleRoots, newRoot) writes into the shared backing array when
\* it has room and moves the roots to an array of their own when not.
AppendSector(sectorData) ==
    /\ Len(merkleRoots) < MaxRoots
    /\ LET r == appendSector(Cache, sectorData)
       IN  /\ SetCache(r.s)
           /\ ret' = ReturnsHash(r.hash, r.err)
           /\ IF r.err # "nil"
              THEN UNCHANGED <<aliased, callerArray, plainRoots>>
              ELSE /\ IF aliased /\ Len(merkleRoots) < Len(callerArray)
                      THEN /\ callerArray' =
                                [callerArray EXCEPT ![Len(merkleRoots) + 1] =
                                                        MerkleRoot(sectorData)]
                           /\ UNCHANGED aliased
                      ELSE /\ aliased' = FALSE
                           /\ UNCHANGED callerArray
                   /\ plainRoots' = Append(plainRoots, MerkleRoot(sectorData))
    /\ UNCHANGED callerLen
    /\ UNCHANGED <<paymentVars, programVars, skyVars, minerVars>>

DropSectors(numSectorsDropped) ==
    /\ LET r == dropSectors(Cache, numSectorsDropped)
       IN  /\ SetCache(r.s)
           /\ ret' = ReturnsHash(r.hash, r.err)
           /\ IF r.err # "nil"
              THEN UNCHANGED plainRoots
              ELSE plainRoots' = SubSeq(plainRoots, 1, Len(plainRoots) - numSectorsDropped)
    /\ UNCHANGED <<aliased, callerArray, callerLen>>
    /\ UNCHANGED <<paymentVars, programVars, skyVars, minerVars>>

\* swapSectors exchanges the roots in place: in the shared backing array
\* while the cache slice points into it.
SwapSectors(offset1, offset2) ==
    /\ LET r == swapSectors(Cache, offset1, offset2)
       IN  /\ SetCache(r.s)
           /\ ret' = ReturnsHash(r.hash, r.err)
           /\ IF r.err # "nil"
              THEN UNCHANGED <<callerArray, plainRoots>>
              ELSE /\ callerArray' =
                        IF aliased
                        THEN [callerArray EXCEPT ![offset1 + 1] = callerArray[offset2 + 1],
                                                 ![offset2 + 1] = callerArray[offset1 + 1]]
                        ELSE callerArray
                   /\ plainRoots' = [plainRoots EXCEPT ![offset1 + 1] = plainRoots[offset2 + 1],
                                                       ![offset2 + 1] = plainRoots[offset1 + 1]]
    /\ UNCHANGED <<aliased, callerLen>>
    /\ UNCHANGED <<paymentVars, programVars, skyVars, minerVars>>

HasSector(sectorRoot) ==
    /\ ret' = ReturnsBool(hasSector(Cache, sectorRoot))
    /\ UNCHANGED <<sectorsRemoved, sectorsGained, merkleRoots, aliased, callerArray,
                   callerLen, plainRoots>>
    /\ UNCHANGED <<paymentVars, programVars, skyVars, minerVars>>

ReadSector(sectorRoot) ==
    /\ LET r == readSector(Cache, sectorRoot)
       IN  ret' = ReturnsData(r.data, r.err)
    /\ UNCHANGED <<sectorsRemoved, sectorsGained, merkleRoots, aliased, callerArray,
                   callerLen, plainRoots>>
    /\ UNCHANGED <<paymentVars, programVars, skyVars, minerVars>>

(***************************************************************************)
(* The SwapSector instruction and the ProgramData object                   *)
(***************************************************************************)
\* What fetching an instruction argument from the program's data yields:
\* the 8 bytes at the argument's offset as a number, or an error.
Fetched(value, err) == [value |-> value, err |-> err]
FetchResults ==
    {Fetched(v, "nil") : v \in 0 .. MaxRoots} \cup {Fetched(0, "offset out of bounds")}

\* crypto.ProofRange and crypto.MerkleDiffProof: the proof of the leaves of
\* the ranges within the tree of the roots; no proof is nil.
ProofRange(start, end) == [Start |-> start, End |-> end]
MerkleDiffProof(ranges, numLeaves, roots) ==
    <<[ranges |-> ranges, numLeaves |-> numLeaves, tree |-> cachedMerkleRoot(roots)]>>
NilProof == <<>>

\* encoding.Marshal of a list of hashes: the number of hashes, then the
\* hashes.
Marshal(hashes) == <<Len(hashes)>> \o hashes

\* errOutput: an output that carries the error only.
errOutput(err) ==
    [NewSize |-> 0, NewMerkleRoot |-> ZeroHash, Output |-> NilData, Proof |-> NilProof,
     Error |-> err]

\* An Execute that passes the offsets on as they were fetched.
Execute_Unordered(s, prevOutput, fetched1, fetched2, staticMerkleProof) ==
    IF fetched1.err # "nil" THEN [s |-> s, called |-> FALSE, out |-> errOutput(fetched1.err)]
    ELSE IF fetched2.err # "nil"
    THEN [s |-> s, called |-> FALSE, out |-> errOutput(fetched2.err)]
    ELSE LET offset1 == fetched1.value
             offset2 == fetched2.value
             swapped == swapSectors(s, offset1, offset2)
         IN  IF swapped.err # "nil"
             THEN [s |-> swapped.s, called |-> TRUE, out |-> errOutput(swapped.err)]
             ELSE LET newRoots == swapped.s.merkleRoots
                      oldSector1 == newRoots[offset2 + 1]
                      oldSector2 == newRoots[offset1 + 1]
                      ranges == <<ProofRange(offset1, offset1 + 1)>>
                                \o (IF offset1 # offset2
                                    THEN <<ProofRange(offset2, offset2 + 1)>> ELSE <<>>)
                      oldLeafHashes == <<oldSector1>>
                                       \o (IF offset1 # offset2 THEN <<oldSector2>> ELSE <<>>)
                  IN  [s |-> swapped.s,
                       called |-> TRUE,
                       out |-> [NewSize |-> prevOutput.NewSize,
                                NewMerkleRoot |-> swapped.hash,
                                Output |-> IF staticMerkleProof THEN Marshal(oldLeafHashes)
                                           ELSE NilData,
                                Proof |-> IF staticMerkleProof
                                          THEN MerkleDiffProof(ranges, Len(newRoots), newRoots)
                                          ELSE NilProof,
                                Error |-> "nil"]]

\* An Execute that swaps the sector at the first offset with itself.
Execute_FirstOnly(s, prevOutput, fetched1, fetched2, staticMerkleProof) ==
    Execute_Unordered(s, prevOutput, fetched1,
                      IF fetched2.err = "nil" THEN fetched1 ELSE fetched2,
                      staticMerkleProof)

\* An Execute that reports no contract size with the new Merkle root.
Execute_NoSize(s, prevOutput, fetched1, fetched2, staticMerkleProof) ==
    LET Sized(r) == IF r.out.Error = "nil" THEN [r EXCEPT !.out.NewSize = 0] ELSE r
        ordered == fetched1.err # "nil" \/ fetched2.err # "nil"
                   \/ fetched1.value <= fetched2.value
    IN  Sized(Execute_Unordered(s, prevOutput,
                                IF ordered THEN fetched1 ELSE fetched2,
                                IF ordered THEN fetched2 ELSE fetched1,
                                staticMerkleProof))

\* instructionSwapSector.Execute: the cache after the call, whether
\* swapSectors was called, and the output.
Execute(s, prevOutput, fetched1, fetched2, staticMerkleProof) ==
    IF fetched1.err # "nil" THEN [s |-> s, called |-> FALSE, out |-> errOutput(fetched1.err)]
    ELSE IF fetched2.err # "nil"
    THEN [s |-> s, called |-> FALSE, out |-> errOutput(fetched2.err)]
    ELSE LET offset1 == IF fetched2.value < fetched1.value THEN fetched2.value
                        ELSE fetched1.value
             offset2 == IF fetched2.value < fetched1.value THEN fetched1.value
                        ELSE fetched2.value
             swapped == swapSectors(s, offset1, offset2)
         IN  IF swapped.err # "nil"
             THEN [s |-> swapped.s, called |-> TRUE, out |-> errOutput(swapped.err)]
             ELSE LET newRoots == swapped.s.merkleRoots
                      oldSector1 == newRoots[offset2 + 1]
                      oldSector2 == newRoots[offset1 + 1]
                      ranges == <<ProofRange(offset1, offset1 + 1)>>
                                \o (IF offset1 # offset2
                                    THEN <<ProofRange(offset2, offset2 + 1)>> ELSE <<>>)
                      oldLeafHashes == <<oldSector1>>
                                       \o (IF offset1 # offset2 THEN <<oldSector2>> ELSE <<>>)
                  IN  [s |-> swapped.s,
                       called |-> TRUE,
                       out |-> [NewSize |-> prevOutput.NewSize,
                                NewMerkleRoot |-> swapped.hash,
                                Output |-> IF staticMerkleProof THEN Marshal(oldLeafHashes)
                                           ELSE NilData,
                                Proof |-> IF staticMerkleProof
                                          THEN MerkleDiffProof(ranges, Len(newRoots), newRoots)
                                          ELSE NilProof,
                                Error |-> "nil"]]

\* The program executes a SwapSector instruction; the previous output is
\* the output of the instruction before it.
ExecuteSwapSector(fetched1, fetched2, staticMerkleProof) ==
    /\ LET r == Execute(Cache, output, fetched1, fetched2, staticMerkleProof)
           i == fetched1.value
           j == fetched2.value
       IN  /\ SetCache(r.s)
           /\ output' = r.out
           /\ ret' = IF r.called
                     THEN ReturnsHash(IF r.out.Error = "nil" THEN r.out.NewMerkleRoot
                                      ELSE ZeroHash, r.out.Error)
                     ELSE ret
           /\ IF r.out.Error # "nil"
              THEN UNCHANGED <<callerArray, plainRoots>>
              ELSE /\ callerArray' =
                        IF aliased
                        THEN [callerArray EXCEPT ![i + 1] = callerArray[j + 1],
                                                 ![j + 1] = callerArray[i + 1]]
                        ELSE callerArray
                   /\ plainRoots' = [plainRoots EXCEPT ![i + 1] = plainRoots[j + 1],
                                                       ![j + 1] = plainRoots[i + 1]]
    /\ UNCHANGED <<aliased, callerLen, programData>>
    /\ UNCHANGED <<paymentVars, skyVars, minerVars>>

\* The readers a ProgramData object is created on: the bytes of the stream.
Readers == {<<>>, <<2, 0, 0, 0, 0, 0, 0, 0>>}

\* No ProgramData object.
NoProgramData == [created |-> FALSE, data |-> <<>>, r |-> <<>>,
                  threadedFetchData |-> "not started", Uint64 |-> "not called"]

\* A goroutine or a call that has panicked ends the process.
NotImplementedYet == "panic: not implemented yet"
Crashed ==
    \/ programData.threadedFetchData = NotImplementedYet
    \/ programData.Uint64 = NotImplementedYet

\* NewProgramData creates the object on the reader and starts
\* threadedFetchData in a goroutine.
NewProgramData(r) ==
    /\ ~programData.created
    /\ programData' = [created |-> TRUE, data |-> <<>>, r |-> r,
                       threadedFetchData |-> "started", Uint64 |-> "not called"]
    /\ UNCHANGED <<paymentVars, cacheVars, output, skyVars, minerVars>>

threadedFetchData ==
    /\ programData.threadedFetchData = "started"
    /\ programData' = [programData EXCEPT !.threadedFetchData = NotImplementedYet]
    /\ UNCHANGED <<paymentVars, cacheVars, output, skyVars, minerVars>>

Uint64(offset) ==
    /\ programData.created
    /\ programData' = [programData EXCEPT !.Uint64 = NotImplementedYet]
    /\ UNCHANGED <<paymentVars, cacheVars, output, skyVars, minerVars>>

Min(a, b) == IF a < b THEN a ELSE b
Max(a, b) == IF a < b THEN b ELSE a

(***************************************************************************)
(* modules/renter/skyfile.go: upload, download, pin and restore of          *)
(* skyfiles. Sizes are counted in units of which SectorSize make a sector.  *)
(***************************************************************************)
\* The size of an encoded layout, and the pieces of a large file's chunks.
SkyfileLayoutSize == 1
RenterDefaultDataPieces == 2
RenterDefaultParityPieces == 1

\* The default redundancy of the base chunk (the Dev and Testing builds).
SkyfileDefaultBaseChunkRedundancy == 2

ErrInvalidMetadata == "metadata is invalid"
ErrMetadataTooBig == "metadata exceeds sectorsize"
ErrSkylinkBlocked == "skylink is blocked"
ErrStopped == "thread group stopped"
TypePlain == "plain"
TypeXChaCha20 == "xchacha20"

\* The file-specific skykey generateFilekey derives for a named skykey the
\* renter holds; a skykey of another renter.
FileSkykey == "file-specific skykey"
ForeignSkykey == "skykey of another renter"
NoSkykey == "none"

\* A SkyfileLayout.
SkyfileLayout(filesize, metadataSize, fanoutSize, dataPieces, parityPieces, cipherType, keyData) ==
    [Version |-> 1, Filesize |-> filesize, MetadataSize |-> metadataSize,
     FanoutSize |-> fanoutSize, FanoutDataPieces |-> dataPieces,
     FanoutParityPieces |-> parityPieces, CipherType |-> cipherType,
     KeyData |-> keyData]
ZeroLayout == SkyfileLayout(0, 0, 0, 0, 0, "", "")

\* modules.BuildBaseSector: layout, fanout, metadata and file bytes, laid
\* out in a sector; the fetch size is the length of the four parts.
BuildBaseSector(layoutBytes, fanoutBytes, metadataBytes, fileBytes) ==
    [baseSector |-> [layout |-> layoutBytes, fanout |-> fanoutBytes,
                     metadata |-> metadataBytes, file |-> fileBytes,
                     encryptedWith |-> NoSkykey],
     fetchSize |-> SkyfileLayoutSize + Len(fanoutBytes) + Len(metadataBytes)
                      + Len(fileBytes)]
NoSector == BuildBaseSector(ZeroLayout, <<>>, <<>>, <<>>).baseSector

\* encryptBaseSectorWithSkykey encrypts the sector in place under the
\* skykey and writes the visible layout fields; decryption under the same
\* skykey gives the plaintext sector back.
encryptBaseSectorWithSkykey(baseSector, sl, sk) ==
    [baseSector EXCEPT !.layout = sl, !.encryptedWith = sk]
IsEncryptedBaseSector(baseSector) == baseSector.encryptedWith # NoSkykey
decryptBaseSector(baseSector) ==
    [baseSector |-> [baseSector EXCEPT !.encryptedWith = NoSkykey],
     fileSpecificSkykey |-> baseSector.encryptedWith,
     err |-> IF baseSector.encryptedWith = FileSkykey THEN "nil"
             ELSE "skykey not found"]
ParseSkyfileMetadata(baseSector) == baseSector.layout

\* A version 1 skylink, its string form, and the skylink loaded from a
\* string.
NewSkylinkV1(root, offset, fetchSize) ==
    [MerkleRoot |-> root, offset |-> offset, fetchSize |-> fetchSize]
NoSkylink == NewSkylinkV1(MerkleRoot(NoSector), 0, 0)
SkylinkString(skylink) == <<"sia://", skylink>>
LoadString(skylinkStr) == skylinkStr[2]

\* The blocklist holds hashes of Merkle roots.
HashObject(root) == [hashOf |-> root]
IsHashBlocked(hash) == hash \in staticSkynetBlocklist
IsBlocked(skylink) == IsHashBlocked(HashObject(skylink.MerkleRoot))

\* SkyfileUploadParameters.
UploadParameters(redundancy, dryRun, skykeyName) ==
    [SiaPath |-> <<"skyfile">>, BaseChunkRedundancy |-> redundancy, DryRun |-> dryRun,
     Force |-> FALSE, SkykeyName |-> skykeyName, FileSpecificSkykey |-> NoSkykey]
NoParameters == UploadParameters(0, FALSE, "")
encryptionEnabled(sup) == sup.SkykeyName # ""

\* generateFilekey: derives the file-specific key of a named skykey, and
\* fails for a name the renter has no skykey of.
generateFilekey(sup) ==
    IF sup.SkykeyName = "" THEN [sup |-> sup, err |-> "nil"]
    ELSE IF sup.SkykeyName = "mykey"
    THEN [sup |-> [sup EXCEPT !.FileSpecificSkykey = FileSkykey], err |-> "nil"]
    ELSE [sup |-> sup, err |-> "skykey not found"]

\* Skyfile metadata: whether ValidateSkyfileMetadata accepts it, and the
\* length of its encoding.
SkyfileMetadata(valid, size) == [Filename |-> "a.txt", valid |-> valid, size |-> size]
ValidateSkyfileMetadata(metadata) == IF metadata.valid THEN "nil" ELSE "invalid"
SkyfileMetadataBytes(metadata) == [i \in 1 .. metadata.size |-> metadata.Filename]

\* A SkyfileUploadReader: the bytes it has not handed out yet (byte k of
\* the file is k), how it ends, and the metadata it reports.
UploadReader(length, readErr, metadata, metadataErr) ==
    [stream |-> [k \in 1 .. length |-> k], readErr |-> readErr, metadata |-> metadata,
     metadataErr |-> metadataErr]
NoReader == UploadReader(0, FALSE, SkyfileMetadata(TRUE, 0), FALSE)

\* io.ReadFull into a buffer of n bytes.
ReadFull(reader, n) ==
    LET numBytes == Min(n, Len(reader.stream))
    IN  [buf |-> SubSeq(reader.stream, 1, numBytes),
         reader |-> [reader EXCEPT
                        !.stream = SubSeq(@, numBytes + 1, Len(reader.stream))],
         err |-> IF numBytes = n THEN "nil"
                 ELSE IF reader.readErr THEN "connection reset"
                 ELSE IF numBytes = 0 THEN "EOF"
                 ELSE "unexpected EOF"]
AddReadBuffer(reader, buf) == [reader EXCEPT !.stream = buf \o @]
ReaderSkyfileMetadata(reader) ==
    IF reader.metadataErr THEN [metadata |-> reader.metadata, err |-> "no metadata"]
    ELSE [metadata |-> reader.metadata, err |-> "nil"]

\* FileUploadParams.
UploadParams(siaPath, dataPieces, parityPieces, force, ct) ==
    [SiaPath |-> siaPath, DataPieces |-> dataPieces, ParityPieces |-> parityPieces,
     Force |-> force, DisablePartialChunk |-> TRUE, Repair |-> FALSE,
     CipherType |-> ct, CipherKey |-> NoSkykey]
NoUploadParams == UploadParams(<<>>, 0, 0, FALSE, "")

\* modules.NewRSSubCode accepts at least one data and one parity piece.
NewRSSubCode(dataPieces, parityPieces) ==
    IF dataPieces < 1 \/ parityPieces < 1 THEN "invalid number of pieces" ELSE "nil"

\* skyfileEstablishDefaults.
skyfileEstablishDefaults(lup) ==
    IF lup.BaseChunkRedundancy = 0
    THEN [lup EXCEPT !.BaseChunkRedundancy = SkyfileDefaultBaseChunkRedundancy]
    ELSE lup

fileUploadParams(siaPath, dataPieces, parityPieces, force, ct) ==
    IF NewRSSubCode(dataPieces, parityPieces) # "nil"
    THEN [up |-> NoUploadParams, err |-> "unable to create erasure coder"]
    ELSE [up |-> UploadParams(siaPath, dataPieces, parityPieces, force, ct),
          err |-> "nil"]

\* With the cipher of the skyfile.
baseSectorUploadParamsFromSUP_Encrypted(sup) ==
    LET sup1 == skyfileEstablishDefaults(sup)
    IN  fileUploadParams(sup1.SiaPath, 1, sup1.BaseChunkRedundancy - 1, sup1.Force,
                         IF encryptionEnabled(sup1) THEN TypeXChaCha20 ELSE TypePlain)

baseSectorUploadParamsFromSUP(sup) ==
    LET sup1 == skyfileEstablishDefaults(sup)
    IN  fileUploadParams(sup1.SiaPath, 1, sup1.BaseChunkRedundancy - 1, sup1.Force,
                         TypePlain)

\* What a call did, in order: the collaborators it called and with what.
Step(ev, skylink, sector, stream, up) ==
    [ev |-> ev, skylink |-> skylink, sector |-> sector, stream |-> stream, up |-> up]
Did(ev) == Step(ev, NoSkylink, NoSector, <<>>, NoUploadParams)
Checked(skylink) == Step("IsBlocked", skylink, NoSector, <<>>, NoUploadParams)
AddedSkylink(skylink, up) == Step("AddSkylink", skylink, NoSector, <<>>, up)
Deleted(siaPath) ==
    Step("DeleteFile", NoSkylink, NoSector, <<>>, [NoUploadParams EXCEPT !.SiaPath = siaPath])

\* modules.ExtendedSuffix, and the path of the extended siafile of a skyfile.
ExtendedSuffix == <<"-extended">>
ExtendedSiaPath(siaPath) == siaPath \o ExtendedSuffix

\* The filesystem after the steps of a call: callUploadStreamFromReader and
\* managedCreateFileNodeFromReader create the siafile at the path of their
\* upload parameters before they take the data, and DeleteFile removes the
\* siafile at its path.
FileStep(files, step) ==
    IF step.ev \in {"callUploadStreamFromReader", "managedCreateFileNodeFromReader"}
    THEN files \cup {step.up.SiaPath}
    ELSE IF step.ev = "DeleteFile" THEN files \ {step.up.SiaPath}
    ELSE files
RECURSIVE FilesAfter(_, _)
FilesAfter(files, steps) ==
    IF steps = <<>> THEN files
    ELSE FilesAfter(FileStep(files, Head(steps)), Tail(steps))

\* What a call returns: a skylink or data, and an error.
Outcome(steps, skylink, data, err) ==
    [steps |-> steps, skylink |-> skylink, data |-> data, err |-> err]
WithSkylink(steps, skylink, err) == Outcome(steps, skylink, NoSector, err)
Failed(steps, err) == Outcome(steps, NoSkylink, NoSector, err)

\* The faults of a call's environment: at most one per call.
Faults == {"none", "read", "metadata", "upload", "addSkylink"}

\* The faults of a conversion's environment: the siafile cannot be opened,
\* the skylink cannot be added to it, the base sector cannot be uploaded, or
\* the siafile cannot be closed.
ConvertFaults == {"none", "open", "addSkylink", "upload", "close"}

\* The pieces an upload stores on the hosts: with one data piece every
\* piece is the data itself, and a cipher encrypts each piece under a key
\* of its own.
Pieces(up, data) ==
    [i \in 1 .. up.DataPieces + up.ParityPieces |->
        [shard |-> IF up.DataPieces = 1 THEN 0 ELSE i,
         key |-> IF up.CipherType = TypePlain THEN 0 ELSE i,
         of |-> data]]

\* The file node of an uploaded stream: its chunks hold DataPieces sectors
\* of data each, and there is at least one chunk.
ChunkSize(up) == SectorSize * up.DataPieces
NumChunks(length, up) ==
    Max(1, (length + ChunkSize(up) - 1) \div ChunkSize(up))
FileNode(stream, up) ==
    [data |-> stream, up |-> up, skylinks |-> {}, keySupported |-> TRUE,
     ecSupported |-> TRUE]

\* skyfileEncodeFanout: one root per chunk of the file.
skyfileEncodeFanout(fileNode) ==
    [c \in 1 .. NumChunks(Len(fileNode.data), fileNode.up) |->
        MerkleRoot(SubSeq(fileNode.data, (c - 1) * ChunkSize(fileNode.up) + 1,
                          Min(c * ChunkSize(fileNode.up), Len(fileNode.data))))]

\* generateCipherKey: the fanout key of the skykey, or a fresh key.
generateCipherKey(fup, sup) ==
    [fup EXCEPT !.CipherKey = IF encryptionEnabled(sup) THEN "fanout skykey"
                              ELSE "file key"]

isFileNodeBlocked(fileNode) == \E skylink \in fileNode.skylinks : IsBlocked(skylink)

managedUploadBaseSector(sup, baseSector, skylink, fault) ==
    LET p == baseSectorUploadParamsFromSUP(sup)
        upload == Step("callUploadStreamFromReader", NoSkylink, baseSector, <<>>, p.up)
    IN  IF p.err # "nil" THEN Failed(<<>>, p.err)
        ELSE IF fault = "upload" THEN Failed(<<upload>>, "failed to stream upload")
        ELSE WithSkylink(<<upload, AddedSkylink(skylink, p.up)>>, NoSkylink, "nil")

managedUploadSkyfileSmallFile(sup, metadataBytes, fileBytes, fault) ==
    LET sl == SkyfileLayout(Len(fileBytes), Len(metadataBytes), 0, 0, 0, TypePlain, "")
        built == BuildBaseSector(sl, <<>>, metadataBytes, fileBytes)
        baseSector ==
            IF encryptionEnabled(sup)
            THEN encryptBaseSectorWithSkykey(built.baseSector, sl, sup.FileSpecificSkykey)
            ELSE built.baseSector
        skylink == NewSkylinkV1(MerkleRoot(baseSector), 0, built.fetchSize)
        steps == <<Step("BuildBaseSector", NoSkylink, built.baseSector, <<>>,
                        NoUploadParams)>>
        uploaded == managedUploadBaseSector(sup, baseSector, skylink, fault)
    IN  IF sup.DryRun THEN WithSkylink(steps, skylink, "nil")
        ELSE IF uploaded.err # "nil" THEN Failed(steps \o uploaded.steps, uploaded.err)
        ELSE WithSkylink(steps \o uploaded.steps, skylink, "nil")

\* The base sector managedCreateSkylinkFromFileNode assembles.
BaseSectorOfFileNode(sup, metadataBytes, fileNode) ==
    LET fanoutBytes == skyfileEncodeFanout(fileNode)
        sl == SkyfileLayout(Len(fileNode.data), Len(metadataBytes), Len(fanoutBytes),
                            fileNode.up.DataPieces, fileNode.up.ParityPieces,
                            fileNode.up.CipherType,
                            IF encryptionEnabled(sup) THEN ""
                            ELSE fileNode.up.CipherKey)
        built == BuildBaseSector(sl, fanoutBytes, metadataBytes, <<>>)
    IN  [plain |-> built.baseSector,
         baseSector |-> IF encryptionEnabled(sup)
                        THEN encryptBaseSectorWithSkykey(built.baseSector, sl,
                                                         sup.FileSpecificSkykey)
                        ELSE built.baseSector,
         fetchSize |-> built.fetchSize]

\* Without the check of the header size.
managedCreateSkylinkFromFileNode_AnySize(sup, skyfileMetadata, fileNode, fault) ==
    LET metadataBytes == SkyfileMetadataBytes(skyfileMetadata)
        fanoutBytes == skyfileEncodeFanout(fileNode)
        sized == <<Step("SkyfileMetadataBytes", NoSkylink, NoSector, metadataBytes,
                        NoUploadParams),
                   Step("skyfileEncodeFanout", NoSkylink, NoSector, fanoutBytes,
                        NoUploadParams)>>
        built == BaseSectorOfFileNode(sup, metadataBytes, fileNode)
        skylink == NewSkylinkV1(MerkleRoot(built.baseSector), 0, built.fetchSize)
        assembled == sized \o <<Step("BuildBaseSector", NoSkylink, built.plain, <<>>,
                                     NoUploadParams)>>
        uploaded == managedUploadBaseSector(sup, built.baseSector, skylink, fault)
    IN  IF ValidateSkyfileMetadata(skyfileMetadata) # "nil"
        THEN Failed(<<>>, ErrInvalidMetadata)
        ELSE IF isFileNodeBlocked(fileNode)
        THEN Failed(<<Deleted(sup.SiaPath)>>, ErrSkylinkBlocked)
        ELSE IF ~fileNode.keySupported
        THEN Failed(<<>>, "cipher key is not supported by the skyfile format")
        ELSE IF ~fileNode.ecSupported
        THEN Failed(<<>>, "siafile has unsupported erasure code type")
        ELSE IF sup.DryRun THEN WithSkylink(assembled, skylink, "nil")
        ELSE IF IsBlocked(skylink)
        THEN Failed(assembled \o <<Checked(skylink), Deleted(sup.SiaPath)>>,
                    ErrSkylinkBlocked)
        ELSE IF fault = "addSkylink"
        THEN WithSkylink(assembled \o <<Checked(skylink), Did("AddSkylink fails")>>,
                         skylink, "unable to add skylink to the sianodes")
        ELSE WithSkylink(assembled
                         \o <<Checked(skylink), AddedSkylink(skylink, fileNode.up)>>
                         \o uploaded.steps,
                      IF uploaded.err = "nil" THEN skylink ELSE NoSkylink,
                      uploaded.err)

managedCreateSkylinkFromFileNode(sup, skyfileMetadata, fileNode, fault) ==
    LET metadataBytes == SkyfileMetadataBytes(skyfileMetadata)
        fanoutBytes == skyfileEncodeFanout(fileNode)
        headerSize == SkyfileLayoutSize + Len(metadataBytes) + Len(fanoutBytes)
        sized == <<Step("SkyfileMetadataBytes", NoSkylink, NoSector, metadataBytes,
                        NoUploadParams),
                   Step("skyfileEncodeFanout", NoSkylink, NoSector, fanoutBytes,
                        NoUploadParams)>>
        built == BaseSectorOfFileNode(sup, metadataBytes, fileNode)
        skylink == NewSkylinkV1(MerkleRoot(built.baseSector), 0, built.fetchSize)
        assembled == sized \o <<Step("BuildBaseSector", NoSkylink, built.plain, <<>>,
                                     NoUploadParams)>>
        uploaded == managedUploadBaseSector(sup, built.baseSector, skylink, fault)
    IN  IF ValidateSkyfileMetadata(skyfileMetadata) # "nil"
        THEN Failed(<<>>, ErrInvalidMetadata)
        ELSE IF isFileNodeBlocked(fileNode)
        THEN Failed(<<Deleted(sup.SiaPath)>>, ErrSkylinkBlocked)
        ELSE IF ~fileNode.keySupported
        THEN Failed(<<>>, "cipher key is not supported by the skyfile format")
        ELSE IF ~fileNode.ecSupported
        THEN Failed(<<>>, "siafile has unsupported erasure code type")
        ELSE IF headerSize > SectorSize THEN Failed(sized, ErrMetadataTooBig)
        ELSE IF sup.DryRun THEN WithSkylink(assembled, skylink, "nil")
        ELSE IF IsBlocked(skylink)
        THEN Failed(assembled \o <<Checked(skylink), Deleted(sup.SiaPath)>>,
                    ErrSkylinkBlocked)
        ELSE IF fault = "addSkylink"
        THEN WithSkylink(assembled \o <<Checked(skylink), Did("AddSkylink fails")>>,
                         skylink, "unable to add skylink to the sianodes")
        ELSE WithSkylink(assembled
                         \o <<Checked(skylink), AddedSkylink(skylink, fileNode.up)>>
                         \o uploaded.steps,
                      IF uploaded.err = "nil" THEN skylink ELSE NoSkylink,
                      uploaded.err)

managedUploadSkyfileLargeFile(sup, fileReader, fault) ==
    LET f == fileUploadParams(sup.SiaPath \o <<"-extended">>, RenterDefaultDataPieces,
                              RenterDefaultParityPieces, sup.Force, TypePlain)
        fup == generateCipherKey(f.up, sup)
        upload == Step(IF sup.DryRun THEN "managedCreateFileNodeFromReader"
                       ELSE "callUploadStreamFromReader",
                       NoSkylink, NoSector, fileReader.stream, fup)
        fileNode == FileNode(fileReader.stream, fup)
        got == ReaderSkyfileMetadata(fileReader)
        Created(created) ==
            Outcome(<<upload>> \o created.steps,
                    IF created.err # "nil" THEN NoSkylink ELSE created.skylink,
                    NoSector, created.err)
    IN  IF f.err # "nil" THEN Failed(<<>>, f.err)
        ELSE IF fileReader.readErr \/ (~sup.DryRun /\ fault = "upload")
        THEN Failed(<<upload>>, "unable to upload large skyfile")
        ELSE IF got.err # "nil" THEN Failed(<<upload>>, got.err)
        ELSE Created(managedCreateSkylinkFromFileNode(sup, got.metadata, fileNode, fault))

\* Loses the bytes already read on the way to the large-file upload.
managedUploadSkyfile_NoReadBuffer(sup, reader, fault) ==
    LET read == ReadFull(reader, SectorSize)
        buf == read.buf
        numBytes == Len(buf)
        eof == read.err \in {"EOF", "unexpected EOF"}
        got == ReaderSkyfileMetadata(read.reader)
        metadataBytes == SkyfileMetadataBytes(got.metadata)
        headerSize == SkyfileLayoutSize + Len(metadataBytes)
        handed == read.reader
        Large(large) ==
            Outcome(<<Step("AddReadBuffer", NoSkylink, NoSector, handed.stream,
                           NoUploadParams)>> \o large.steps,
                    large.skylink, NoSector, large.err)
    IN  IF eof /\ got.err # "nil" THEN Failed(<<>>, got.err)
        ELSE IF eof /\ ValidateSkyfileMetadata(got.metadata) # "nil"
        THEN Failed(<<>>, ErrInvalidMetadata)
        ELSE IF eof /\ numBytes + headerSize <= SectorSize
        THEN managedUploadSkyfileSmallFile(sup, metadataBytes, buf, fault)
        ELSE Large(managedUploadSkyfileLargeFile(sup, handed, fault))

managedUploadSkyfile(sup, reader, fault) ==
    LET read == ReadFull(reader, SectorSize)
        buf == read.buf
        numBytes == Len(buf)
        eof == read.err \in {"EOF", "unexpected EOF"}
        got == ReaderSkyfileMetadata(read.reader)
        metadataBytes == SkyfileMetadataBytes(got.metadata)
        headerSize == SkyfileLayoutSize + Len(metadataBytes)
        handed == AddReadBuffer(read.reader, buf)
        Large(large) ==
            Outcome(<<Step("AddReadBuffer", NoSkylink, NoSector, handed.stream,
                           NoUploadParams)>> \o large.steps,
                    large.skylink, NoSector, large.err)
    IN  IF eof /\ got.err # "nil" THEN Failed(<<>>, got.err)
        ELSE IF eof /\ ValidateSkyfileMetadata(got.metadata) # "nil"
        THEN Failed(<<>>, ErrInvalidMetadata)
        ELSE IF eof /\ numBytes + headerSize <= SectorSize
        THEN managedUploadSkyfileSmallFile(sup, metadataBytes, buf, fault)
        ELSE Large(managedUploadSkyfileLargeFile(sup, handed, fault))

\* UploadSkyfile; the deferred function deletes the siafiles after a failed
\* upload or a dry run. The SkyfileUploadFail disrupt is off in production.
\* An UploadSkyfile that cleans up after an error only, not after a dry run.
UploadSkyfile_KeepsDryRun(sup, reader, fault) ==
    LET keyed == generateFilekey(skyfileEstablishDefaults(sup))
        cleanup == <<Deleted(keyed.sup.SiaPath),
                     Deleted(ExtendedSiaPath(keyed.sup.SiaPath))>>
        Uploaded(uploaded) ==
            IF uploaded.err # "nil"
            THEN Failed(uploaded.steps \o cleanup, uploaded.err)
            ELSE IF IsBlocked(uploaded.skylink) /\ ~keyed.sup.DryRun
            THEN Failed(uploaded.steps \o <<Checked(uploaded.skylink)>> \o cleanup,
                        ErrSkylinkBlocked)
            ELSE WithSkylink(uploaded.steps \o <<Checked(uploaded.skylink)>>,
                          uploaded.skylink, "nil")
    IN  IF keyed.err # "nil" THEN Failed(<<>>, keyed.err)
        ELSE Uploaded(managedUploadSkyfile(keyed.sup, reader, fault))

UploadSkyfile(sup, reader, fault) ==
    LET keyed == generateFilekey(skyfileEstablishDefaults(sup))
        cleanup == <<Deleted(keyed.sup.SiaPath),
                     Deleted(ExtendedSiaPath(keyed.sup.SiaPath))>>
        Uploaded(uploaded) ==
            IF uploaded.err # "nil"
            THEN Failed(uploaded.steps \o cleanup, uploaded.err)
            ELSE IF IsBlocked(uploaded.skylink) /\ ~keyed.sup.DryRun
            THEN Failed(uploaded.steps \o <<Checked(uploaded.skylink)>> \o cleanup,
                        ErrSkylinkBlocked)
            ELSE WithSkylink(uploaded.steps \o <<Checked(uploaded.skylink)>>
                             \o (IF keyed.sup.DryRun THEN cleanup ELSE <<>>),
                          uploaded.skylink, "nil")
    IN  IF keyed.err # "nil" THEN Failed(<<>>, keyed.err)
        ELSE Uploaded(managedUploadSkyfile(keyed.sup, reader, fault))

\* A siafile of the renter's filesystem: the length of the encoding of the
\* skyfile metadata made of its name, mode and size, and its file node.
Siafile(metadataSize, stream, skylinks) ==
    [metadataSize |-> metadataSize,
     node |-> [FileNode(stream,
                        generateCipherKey(
                            UploadParams(<<"siafile">>, RenterDefaultDataPieces,
                                         RenterDefaultParityPieces, FALSE, TypePlain),
                            NoParameters))
               EXCEPT !.skylinks = skylinks]]
NoSiafile == Siafile(0, <<>>, {})

ErrEncryptionNotSupported == "skyfile encryption is not supported"

\* CreateSkylinkFromSiafile: the metadata of the skyfile is made of the
\* name of the siafile and of the mode and size of the file node; the
\* deferred Close of the file node adds its error to the returned one.
CreateSkylinkFromSiafile(sup, siafile, fault) ==
    LET metadata == SkyfileMetadata(TRUE, siafile.metadataSize)
        Closed(created) ==
            Outcome(created.steps \o <<Did("Close")>>, created.skylink, NoSector,
                    IF fault = "close" /\ created.err = "nil"
                    THEN "unable to close the file node" ELSE created.err)
    IN  IF encryptionEnabled(sup)
        THEN Failed(<<>>, ErrEncryptionNotSupported)
        ELSE IF fault = "open" THEN Failed(<<Did("OpenSiaFile")>>, "unable to open siafile")
        ELSE Closed(managedCreateSkylinkFromFileNode(skyfileEstablishDefaults(sup),
                                                     metadata, siafile.node, fault))

\* The skyfiles on the network: a small plaintext file, the same file
\* encrypted under the renter's skykey and under a skykey of another
\* renter, and a large file of SectorSize bytes.
NetworkSkyfile(built, fileData) ==
    [baseSector |-> built.baseSector, fetchSize |-> built.fetchSize, stream |-> fileData]
SmallSkyfile ==
    NetworkSkyfile(
        BuildBaseSector(SkyfileLayout(1, 0, 0, 0, 0, TypePlain, ""), <<>>, <<>>, <<1>>),
        <<>>)
EncryptedSkyfile(sk) ==
    [SmallSkyfile EXCEPT
        !.baseSector = encryptBaseSectorWithSkykey(@, SmallSkyfile.baseSector.layout, sk)]
LargeSkyfile ==
    LET fileData == [k \in 1 .. SectorSize |-> k]
        fup == generateCipherKey(
                   UploadParams(<<"skyfile", "-extended">>, RenterDefaultDataPieces,
                                RenterDefaultParityPieces, FALSE, TypePlain),
                   NoParameters)
    IN  NetworkSkyfile(BaseSectorOfFileNode(NoParameters, <<>>, FileNode(fileData, fup)),
                       fileData)
NetworkSkyfiles ==
    {SmallSkyfile, EncryptedSkyfile(FileSkykey), EncryptedSkyfile(ForeignSkykey),
     LargeSkyfile}
SkylinkOf(skyfile) == NewSkylinkV1(MerkleRoot(skyfile.baseSector), 0, skyfile.fetchSize)

\* The skylinks a caller quotes: those of the network's skyfiles and one of
\* a sector no host stores.
Skylinks == {SkylinkOf(skyfile) : skyfile \in NetworkSkyfiles} \cup {NoSkylink}

\* The hashes the operator of the renter puts on the blocklist.
Blockable ==
    {HashObject(MerkleRoot(skyfile.baseSector)) : skyfile \in {SmallSkyfile, LargeSkyfile}}

\* The siafiles a caller converts: empty, of one chunk and of two chunks,
\* with metadata that fits the base sector and metadata that does not,
\* with and without a skylink of their own, and one each with a cipher key
\* and an erasure code the skyfile format does not support.
SiafileStreams ==
    {<<>>, [k \in 1 .. SectorSize |-> k],
     [k \in 1 .. SectorSize * RenterDefaultDataPieces + 1 |-> k]}
Siafiles ==
    {Siafile(metadataSize, stream, skylinks) :
        metadataSize \in {0, 1}, stream \in SiafileStreams,
        skylinks \in {{}, {SkylinkOf(SmallSkyfile)}}}
    \cup {[NoSiafile EXCEPT !.node.keySupported = FALSE],
          [NoSiafile EXCEPT !.node.ecSupported = FALSE]}

\* managedDownloadByRoot and skylinkDataSource fetch from the hosts.
managedDownloadByRoot(root) ==
    LET Found(stored) ==
            IF stored = {} THEN [data |-> NoSector, stream |-> <<>>, err |-> "not found"]
            ELSE LET skyfile == CHOOSE skyfile \in stored : TRUE
                 IN  [data |-> skyfile.baseSector, stream |-> skyfile.stream,
                      err |-> "nil"]
    IN  Found({skyfile \in NetworkSkyfiles : MerkleRoot(skyfile.baseSector) = root})
FetchStep(ev, root, data) == Step(ev, NewSkylinkV1(root, 0, 0), data, <<>>, NoUploadParams)

\* Without the check of the blocklist.
DownloadByRoot_Unchecked(root) ==
    LET Downloaded(dl) ==
            Outcome(<<FetchStep("managedDownloadByRoot", root, dl.data)>>, NoSkylink,
                    dl.data, dl.err)
    IN  IF tgStopped THEN Failed(<<>>, ErrStopped)
        ELSE Downloaded(managedDownloadByRoot(root))

DownloadByRoot(root) ==
    LET checked == FetchStep("IsHashBlocked", root, NoSector)
        Downloaded(dl) ==
            Outcome(<<checked, FetchStep("managedDownloadByRoot", root, dl.data)>>,
                    NoSkylink, dl.data, dl.err)
    IN  IF tgStopped THEN Failed(<<>>, ErrStopped)
        ELSE IF IsHashBlocked(HashObject(root))
        THEN Failed(<<checked>>, ErrSkylinkBlocked)
        ELSE Downloaded(managedDownloadByRoot(root))

DownloadSkylink(link) ==
    LET Downloaded(dl) ==
            Outcome(<<Checked(link), FetchStep("managedDownloadSkylink", link.MerkleRoot, dl.data)>>,
                    NoSkylink, dl.data, dl.err)
    IN  IF tgStopped THEN Failed(<<>>, ErrStopped)
        ELSE IF IsBlocked(link) THEN Failed(<<Checked(link)>>, ErrSkylinkBlocked)
        ELSE Downloaded(managedDownloadByRoot(link.MerkleRoot))

DownloadSkylinkBaseSector(link) ==
    LET Downloaded(dl) ==
            Outcome(<<Checked(link), FetchStep("managedDownloadByRoot", link.MerkleRoot, dl.data)>>,
                    NoSkylink, dl.data, dl.err)
    IN  IF tgStopped THEN Failed(<<>>, ErrStopped)
        ELSE IF IsBlocked(link) THEN Failed(<<Checked(link)>>, ErrSkylinkBlocked)
        ELSE Downloaded(managedDownloadByRoot(link.MerkleRoot))

\* Uploads the decrypted base sector without encrypting it again.
PinSkylink_NoReencrypt(skylink, lup, fault) ==
    LET Pinned(dl) ==
            LET encrypted == IsEncryptedBaseSector(dl.data)
                dec == decryptBaseSector(dl.data)
                plain == IF encrypted THEN dec.baseSector ELSE dl.data
                layout == ParseSkyfileMetadata(plain)
                lup1 == skyfileEstablishDefaults(lup)
                lup2 == IF encrypted
                        THEN [lup1 EXCEPT !.SkykeyName = "mykey",
                                          !.FileSpecificSkykey = dec.fileSpecificSkykey]
                        ELSE lup1
                fup == [UploadParams(lup2.SiaPath \o <<"-extended">>,
                                     layout.FanoutDataPieces, layout.FanoutParityPieces,
                                     lup2.Force,
                                     IF encrypted THEN TypeXChaCha20 ELSE TypePlain)
                           EXCEPT !.CipherKey = IF encrypted THEN "fanout skykey"
                                                ELSE NoSkykey]
                opened == <<Checked(skylink)>> \o dl.steps
                             \o (IF encrypted THEN <<Did("decryptBaseSector")>>
                                 ELSE <<>>)
                parsed == opened \o <<Did("ParseSkyfileMetadata")>>
                source == managedDownloadByRoot(skylink.MerkleRoot)
                upload == Step("callUploadStreamFromReader", NoSkylink, NoSector,
                               source.stream, fup)
                Based(based, err) ==
                    IF err # "nil" THEN Failed(based, err)
                    ELSE IF layout.FanoutSize = 0 THEN WithSkylink(based, NoSkylink, "nil")
                    ELSE IF NewRSSubCode(layout.FanoutDataPieces,
                                         layout.FanoutParityPieces) # "nil"
                    THEN Failed(based, "unable to create erasure coder for large file")
                    ELSE IF fault = "upload"
                    THEN Failed(based \o <<Did("skylinkDataSource"), upload>>,
                                "unable to upload large skyfile")
                    ELSE WithSkylink(based \o <<Did("skylinkDataSource"), upload,
                                             AddedSkylink(skylink, fup)>>,
                                  NoSkylink, "nil")
                Uploaded(uploaded) == Based(parsed \o uploaded.steps, uploaded.err)
            IN  IF dl.err # "nil" THEN Failed(<<Checked(skylink)>> \o dl.steps, dl.err)
                ELSE IF encrypted /\ dec.err # "nil" THEN Failed(opened, dec.err)
                ELSE Uploaded(managedUploadBaseSector(lup2, plain, skylink, fault))
    IN  IF IsBlocked(skylink) THEN Failed(<<Checked(skylink)>>, ErrSkylinkBlocked)
        ELSE Pinned(DownloadByRoot(skylink.MerkleRoot))

PinSkylink(skylink, lup, fault) ==
    LET Pinned(dl) ==
            LET encrypted == IsEncryptedBaseSector(dl.data)
                dec == decryptBaseSector(dl.data)
                plain == IF encrypted THEN dec.baseSector ELSE dl.data
                layout == ParseSkyfileMetadata(plain)
                lup1 == skyfileEstablishDefaults(lup)
                baseSector == IF encrypted
                              THEN encryptBaseSectorWithSkykey(plain, layout,
                                                               dec.fileSpecificSkykey)
                              ELSE plain
                lup2 == IF encrypted
                        THEN [lup1 EXCEPT !.SkykeyName = "mykey",
                                          !.FileSpecificSkykey = dec.fileSpecificSkykey]
                        ELSE lup1
                fup == [UploadParams(lup2.SiaPath \o <<"-extended">>,
                                     layout.FanoutDataPieces, layout.FanoutParityPieces,
                                     lup2.Force,
                                     IF encrypted THEN TypeXChaCha20 ELSE TypePlain)
                           EXCEPT !.CipherKey = IF encrypted THEN "fanout skykey"
                                                ELSE NoSkykey]
                opened == <<Checked(skylink)>> \o dl.steps
                             \o (IF encrypted THEN <<Did("decryptBaseSector")>>
                                 ELSE <<>>)
                parsed == opened \o <<Did("ParseSkyfileMetadata")>>
                source == managedDownloadByRoot(skylink.MerkleRoot)
                upload == Step("callUploadStreamFromReader", NoSkylink, NoSector,
                               source.stream, fup)
                Based(based, err) ==
                    IF err # "nil" THEN Failed(based, err)
                    ELSE IF layout.FanoutSize = 0 THEN WithSkylink(based, NoSkylink, "nil")
                    ELSE IF NewRSSubCode(layout.FanoutDataPieces,
                                         layout.FanoutParityPieces) # "nil"
                    THEN Failed(based, "unable to create erasure coder for large file")
                    ELSE IF fault = "upload"
                    THEN Failed(based \o <<Did("skylinkDataSource"), upload>>,
                                "unable to upload large skyfile")
                    ELSE WithSkylink(based \o <<Did("skylinkDataSource"), upload,
                                             AddedSkylink(skylink, fup)>>,
                                  NoSkylink, "nil")
                Uploaded(uploaded) == Based(parsed \o uploaded.steps, uploaded.err)
            IN  IF dl.err # "nil" THEN Failed(<<Checked(skylink)>> \o dl.steps, dl.err)
                ELSE IF encrypted /\ dec.err # "nil" THEN Failed(opened, dec.err)
                ELSE Uploaded(managedUploadBaseSector(lup2, baseSector, skylink, fault))
    IN  IF IsBlocked(skylink) THEN Failed(<<Checked(skylink)>>, ErrSkylinkBlocked)
        ELSE Pinned(DownloadByRoot(skylink.MerkleRoot))

\* A backup: the skylink string and base sector modules.RestoreSkylink
\* reads from it, and the file data that follows. A backup is written from
\* a skyfile; a corrupt one does not parse.
Backup(skyfile, corrupt) ==
    [skylinkStr |-> SkylinkString(SkylinkOf(skyfile)), baseSector |-> skyfile.baseSector,
     stream |-> skyfile.stream, corrupt |-> corrupt]
Backups ==
    {Backup(skyfile, FALSE) : skyfile \in NetworkSkyfiles}
        \cup {Backup(SmallSkyfile, TRUE)}
NoBackup == Backup([baseSector |-> NoSector, fetchSize |-> 0, stream |-> <<>>], TRUE)
RestoreSkylink(reader) ==
    [skylinkStr |-> reader.skylinkStr, baseSector |-> reader.baseSector,
     err |-> IF reader.corrupt THEN "unable to restore skyfile from backup" ELSE "nil"]

RestoreSkyfile(reader, fault) ==
    LET restored == RestoreSkylink(reader)
        skylink == LoadString(restored.skylinkStr)
        encrypted == IsEncryptedBaseSector(restored.baseSector)
        dec == decryptBaseSector(restored.baseSector)
        plain == IF encrypted THEN dec.baseSector ELSE restored.baseSector
        sl == ParseSkyfileMetadata(plain)
        sup0 == skyfileEstablishDefaults(
                    [UploadParameters(
                         (sl.FanoutDataPieces + sl.FanoutParityPieces) % 256, FALSE, "")
                        EXCEPT !.SiaPath = <<"skynet", restored.skylinkStr>>])
        baseSector == IF encrypted
                      THEN encryptBaseSectorWithSkykey(plain, sl, dec.fileSpecificSkykey)
                      ELSE plain
        sup == IF encrypted
               THEN [sup0 EXCEPT !.SkykeyName = "mykey",
                                 !.FileSpecificSkykey = dec.fileSpecificSkykey]
               ELSE sup0
        opened == <<Did("RestoreSkylink"), Checked(skylink)>>
                     \o (IF encrypted THEN <<Did("decryptBaseSector")>> ELSE <<>>)
        parsed == opened \o <<Did("ParseSkyfileMetadata")>>
        f == fileUploadParams(sup.SiaPath \o <<"-extended">>, sl.FanoutDataPieces,
                              sl.FanoutParityPieces, sup.Force, sl.CipherType)
        fup == IF sl.CipherType = "threefish"
               THEN [f.up EXCEPT !.CipherKey = sl.KeyData]
               ELSE generateCipherKey(f.up, sup)
        upload == Step("callUploadStreamFromReader", NoSkylink, NoSector, reader.stream,
                       fup)
        fileNode == FileNode(reader.stream, fup)
        Based(based, err) ==
            IF err # "nil" THEN Failed(based, err)
            ELSE IF sl.FanoutSize = 0 THEN WithSkylink(based, skylink, "nil")
            ELSE IF f.err # "nil" THEN Failed(based, f.err)
            ELSE IF fault = "upload"
            THEN Failed(based \o <<upload>>, "unable to upload large skyfile")
            ELSE IF isFileNodeBlocked(fileNode)
            THEN Failed(based \o <<upload, Deleted(sup.SiaPath)>>, ErrSkylinkBlocked)
            ELSE WithSkylink(based \o <<upload, AddedSkylink(skylink, fup)>>, skylink,
                          "nil")
        Uploaded(uploaded) == Based(parsed \o uploaded.steps, uploaded.err)
    IN  IF restored.err # "nil" THEN Failed(<<Did("RestoreSkylink")>>, restored.err)
        ELSE IF IsBlocked(skylink)
        THEN Failed(<<Did("RestoreSkylink"), Checked(skylink)>>, ErrSkylinkBlocked)
        ELSE IF encrypted /\ dec.err # "nil" THEN Failed(opened, dec.err)
        ELSE Uploaded(managedUploadBaseSector(sup, baseSector, skylink, fault))

\* The renter before any call.
NoCall ==
    [op |-> "none", sup |-> NoParameters, reader |-> NoReader, skylink |-> NoSkylink,
     siafile |-> NoSiafile,
     backup |-> NoBackup, fault |-> "none", stopped |-> FALSE, blocked |-> {},
     steps |-> <<>>, returned |-> NoSkylink, data |-> NoSector, err |-> "nil"]
RenterInit ==
    /\ staticSkynetBlocklist = {}
    /\ tgStopped = FALSE
    /\ siafiles = {}
    /\ call = NoCall

\* A call on the renter: what it was given, the blocklist and thread group
\* it ran with, what it did and what it returned.
Called(given, r) ==
    /\ call' = [given EXCEPT !.stopped = tgStopped, !.blocked = staticSkynetBlocklist,
                             !.steps = r.steps, !.returned = r.skylink,
                             !.data = r.data, !.err = r.err]
    /\ siafiles' = FilesAfter(siafiles, r.steps)
    /\ UNCHANGED <<staticSkynetBlocklist, tgStopped, paymentVars, cacheVars, programVars,
                   minerVars>>

CallUploadSkyfile(sup, reader, fault) ==
    Called([NoCall EXCEPT !.op = "UploadSkyfile", !.sup = sup, !.reader = reader,
                          !.fault = fault],
           UploadSkyfile(sup, reader, fault))

CallCreateSkylinkFromSiafile(sup, siafile, fault) ==
    Called([NoCall EXCEPT !.op = "CreateSkylinkFromSiafile", !.sup = sup,
                          !.siafile = siafile, !.fault = fault],
           CreateSkylinkFromSiafile(sup, siafile, fault))

CallDownloadByRoot(link) ==
    Called([NoCall EXCEPT !.op = "DownloadByRoot", !.skylink = link],
           DownloadByRoot(link.MerkleRoot))

CallDownloadSkylink(link) ==
    Called([NoCall EXCEPT !.op = "DownloadSkylink", !.skylink = link],
           DownloadSkylink(link))

CallDownloadSkylinkBaseSector(link) ==
    Called([NoCall EXCEPT !.op = "DownloadSkylinkBaseSector", !.skylink = link],
           DownloadSkylinkBaseSector(link))

CallPinSkylink(skylink, lup, fault) ==
    Called([NoCall EXCEPT !.op = "PinSkylink", !.skylink = skylink, !.sup = lup,
                          !.fault = fault],
           PinSkylink(skylink, lup, fault))

CallRestoreSkyfile(reader, fault) ==
    Called([NoCall EXCEPT !.op = "RestoreSkyfile", !.backup = reader, !.fault = fault],
           RestoreSkyfile(reader, fault))

\* UpdateSkynetBlocklist adds and removes hashes while the thread group
\* runs.
UpdateSkynetBlocklist(additions, removals) ==
    /\ staticSkynetBlocklist' =
          IF tgStopped THEN staticSkynetBlocklist
          ELSE (staticSkynetBlocklist \cup additions) \ removals
    /\ call' = [NoCall EXCEPT !.op = "UpdateSkynetBlocklist", !.stopped = tgStopped,
                              !.blocked = staticSkynetBlocklist,
                              !.err = IF tgStopped THEN ErrStopped ELSE "nil"]
    /\ UNCHANGED <<tgStopped, siafiles, paymentVars, cacheVars, programVars, minerVars>>

\* The renter's thread group is stopped when the renter closes.
Close ==
    /\ ~tgStopped
    /\ tgStopped' = TRUE
    /\ call' = [NoCall EXCEPT !.op = "Close", !.blocked = staticSkynetBlocklist]
    /\ UNCHANGED <<staticSkynetBlocklist, siafiles, paymentVars, cacheVars, programVars,
                   minerVars>>


(***************************************************************************)
(* The block template of the miner                                         *)
(***************************************************************************)
\* The transactions of the transaction pool, and a block's miner payout.
Transactions == {"txn1", "txn2"}
MinerPayout == SiacoinOutput(1, "miner")
MaxTransactions == 3

\* Transaction.ID: the hash of the transaction.
TransactionID(txn) == [idOf |-> txn]

\* types.Block.
Block(parentID, transactions) ==
    [ParentID |-> parentID, Nonce |-> 0, Timestamp |-> 0,
     MinerPayouts |-> <<MinerPayout>>, Transactions |-> transactions]

\* merkletree.Tree: the stack of its subtrees, the head first.  Push adds
\* the sum of a leaf as a subtree of height 0 and joins the two subtrees at
\* the head as long as they have the same height.
LeafSum(data) == [leaf |-> data]
NodeSum(a, b) == [left |-> a, right |-> b]
SubTree(height, sum) == [height |-> height, sum |-> sum]
RECURSIVE joinAllSubTrees(_)
joinAllSubTrees(tree) ==
    IF Len(tree) >= 2 /\ tree[1].height = tree[2].height
    THEN joinAllSubTrees(<<SubTree(tree[1].height + 1, NodeSum(tree[2].sum, tree[1].sum))>>
                         \o SubSeq(tree, 3, Len(tree)))
    ELSE tree
Push(tree, data) == joinAllSubTrees(<<SubTree(0, LeafSum(data))>> \o tree)
RECURSIVE PushAll(_, _)
PushAll(tree, leaves) ==
    IF leaves = <<>> THEN tree ELSE PushAll(Push(tree, Head(leaves)), Tail(leaves))

\* hex.EncodeToString.
EncodeToString(sum) == [hex |-> sum]

\* Block.MerkleBranches: the sums of the subtrees of the tree of the miner
\* payouts and the transactions, from the head of the tree on.
MerkleBranches(b) ==
    LET mbranch == PushAll(<<>>, b.MinerPayouts \o b.Transactions)
    IN  [i \in 1 .. Len(mbranch) |-> EncodeToString(mbranch[i].sum)]

\* Block.BlockTemplate: the MerkleBranches field is not set and keeps its
\* zero value, no branches.
BlockTemplate(b) ==
    [ParentID |-> b.ParentID, Nonce |-> b.Nonce, Timestamp |-> b.Timestamp,
     MinerPayouts |-> b.MinerPayouts,
     Transactions |-> [i \in 1 .. Len(b.Transactions) |-> TransactionID(b.Transactions[i])],
     MerkleBranches |-> <<>>]

NothingWritten == [block |-> Block(0, <<>>), json |-> Nil]
MinerInit ==
    /\ unsolvedBlock = Block(0, <<>>)
    /\ written = NothingWritten

\* The miner adds a transaction of the pool to its block.
AddTransaction(txn) ==
    /\ Len(unsolvedBlock.Transactions) < MaxTransactions
    /\ unsolvedBlock' = [unsolvedBlock EXCEPT !.Transactions = Append(@, txn)]
    /\ UNCHANGED <<written, paymentVars, cacheVars, programVars, skyVars>>

\* A block was found on top of the miner's block's parent: the miner starts
\* on a block with the new parent.
NewBlock ==
    /\ unsolvedBlock.ParentID < MaxHeight
    /\ unsolvedBlock' = Block(unsolvedBlock.ParentID + 1, <<>>)
    /\ UNCHANGED <<written, paymentVars, cacheVars, programVars, skyVars>>

\* minerBlockHandlerGET writes the miner's block template as JSON.
minerBlockHandlerGET ==
    /\ written' = [block |-> unsolvedBlock, json |-> BlockTemplate(unsolvedBlock)]
    /\ UNCHANGED <<unsolvedBlock, paymentVars, cacheVars, programVars, skyVars>>


(***************************************************************************)
(* Specifications                                                          *)
(***************************************************************************)
\* The host before any stream is served.
HostInit ==
    /\ storageObligations =
          [fcid \in FCIDs |->
              IF fcid \in {FC1, FC2} THEN InitialObligation(fcid)
              ELSE IF fcid = FCNoRevision THEN [RevisionTransactionSet |-> <<>>]
              ELSE Nil]
    /\ lockedStorageObligations = [fcid \in FCIDs |-> NoHandler]
    /\ blockHeight = 1
    /\ balances = [a \in Accounts |-> MaxCur + 1]
    /\ pc = [h \in Handlers |-> "ProcessPayment"]
    /\ pr = [h \in Handlers |-> "none"]
    /\ frame = [h \in Handlers |-> InitialFrame]
    /\ deferred = [h \in Handlers |-> <<>>]
    /\ reads = [h \in Handlers |-> 0]
    /\ out = [h \in Handlers |-> <<>>]
    /\ result = [h \in Handlers |-> Nil]

\* A program's cache on the first len roots of a backing array, before any
\* call.
CacheOf(array, len) ==
    /\ callerArray = array
    /\ callerLen = len
    /\ sectorsRemoved = {}
    /\ sectorsGained = EmptyMap
    /\ merkleRoots = SubSeq(array, 1, len)
    /\ aliased = TRUE
    /\ ret = ReturnsHash(ZeroHash, "nil")
    /\ plainRoots = SubSeq(array, 1, len)
    /\ output = [NewSize |-> len * SectorSize,
                 NewMerkleRoot |-> cachedMerkleRoot(SubSeq(array, 1, len)),
                 Output |-> NilData, Proof |-> NilProof, Error |-> "nil"]
    /\ programData = NoProgramData

Init == HostInit /\ CacheOf(<<>>, 0) /\ RenterInit /\ MinerInit

\* A program starts on a list of roots of sectors the host stores; the list
\* may be shorter than its backing array.
InitCache ==
    /\ HostInit
    /\ RenterInit
    /\ MinerInit
    /\ \E n \in {0, 1, 2} :
          \E array \in [1 .. n -> HostSectors] :
             \E len \in 0 .. n : CacheOf(array, len)

\* The calls a program makes on its cache; the caller of swapSectors orders
\* the two offsets.
NextCache ==
    \/ NewSectors
    \/ \E sectorData \in AppendInputs : AppendSector(sectorData)
    \/ \E n \in 0 .. MaxRoots + 1 : DropSectors(n)
    \/ \E i \in 0 .. MaxRoots : \E j \in i .. MaxRoots : SwapSectors(i, j)
    \/ \E root \in SectorRoots : HasSector(root)
    \/ \E root \in SectorRoots : ReadSector(root)

SpecCache == InitCache /\ [][NextCache]_vars

\* A program appends sectors and executes SwapSector instructions.
NextSwap ==
    \/ \E sectorData \in SectorData : AppendSector(sectorData)
    \/ \E fetched1, fetched2 \in FetchResults, staticMerkleProof \in BOOLEAN :
          ExecuteSwapSector(fetched1, fetched2, staticMerkleProof)

SpecSwap == InitCache /\ [][NextSwap]_vars

\* A program appends and drops sectors and uses a ProgramData object, until
\* the process crashes.
NextData ==
    \/ \E sectorData \in SectorData : ~Crashed /\ AppendSector(sectorData)
    \/ \E n \in 1 .. MaxRoots : ~Crashed /\ DropSectors(n)
    \/ \E r \in Readers : ~Crashed /\ NewProgramData(r)
    \/ ~Crashed /\ threadedFetchData
    \/ \E offset \in {0, 8} : ~Crashed /\ Uint64(offset)

SpecData == InitCache /\ [][NextData]_vars

\* The inputs of UploadSkyfile: the upload parameters, and readers of files
\* of each length with each metadata that end or break and report their
\* metadata or fail to.
UploadInputs ==
    {UploadParameters(0, FALSE, ""), UploadParameters(0, TRUE, ""),
     UploadParameters(0, FALSE, "mykey"), UploadParameters(0, FALSE, "lost"),
     UploadParameters(3, FALSE, "")}
MetadataInputs ==
    {SkyfileMetadata(TRUE, size) : size \in 0 .. SectorSize}
        \cup {SkyfileMetadata(FALSE, 0)}
ReaderInputs ==
    {UploadReader(length, readErr, metadata, metadataErr) :
        length \in 0 .. SectorSize + 1, readErr \in BOOLEAN,
        metadata \in MetadataInputs, metadataErr \in BOOLEAN}

\* The renter uploads skyfiles while its operator edits the blocklist.
NextUpload ==
    \/ \E sup \in UploadInputs, fault \in Faults, reader \in ReaderInputs :
          /\ reader.readErr = (fault = "read")
          /\ reader.metadataErr = (fault = "metadata")
          /\ fault \in {"upload", "addSkylink"} => sup = UploadParameters(0, FALSE, "")
          /\ CallUploadSkyfile(sup, reader, fault)
    \/ \E additions, removals \in SUBSET Blockable :
          UpdateSkynetBlocklist(additions, removals)

SpecUpload == Init /\ [][NextUpload]_vars

\* The renter converts siafiles to skyfiles while its operator edits the
\* blocklist.
NextConvert ==
    \/ \E sup \in UploadInputs, siafile \in Siafiles, fault \in ConvertFaults :
          CallCreateSkylinkFromSiafile(sup, siafile, fault)
    \/ \E additions, removals \in SUBSET Blockable :
          UpdateSkynetBlocklist(additions, removals)

SpecConvert == Init /\ [][NextConvert]_vars

\* The miner assembles blocks while its API serves the block template.
NextMiner ==
    \/ \E txn \in Transactions : AddTransaction(txn)
    \/ NewBlock
    \/ minerBlockHandlerGET

SpecMiner == Init /\ [][NextMiner]_vars

\* The renter serves uploads of files with little metadata, downloads, pins
\* and restores while its operator edits the blocklist, until and after it
\* is closed.
NextSky ==
    \/ \E sup \in UploadInputs, reader \in ReaderInputs :
          /\ ~reader.readErr /\ ~reader.metadataErr
          /\ reader.metadata = SkyfileMetadata(TRUE, 0)
          /\ CallUploadSkyfile(sup, reader, "none")
    \/ \E link \in Skylinks : CallDownloadByRoot(link)
    \/ \E link \in Skylinks : CallDownloadSkylink(link)
    \/ \E link \in Skylinks : CallDownloadSkylinkBaseSector(link)
    \/ \E skylink \in Skylinks, lup \in UploadInputs, fault \in {"none", "upload"} :
          /\ ~lup.DryRun /\ lup.SkykeyName = ""
          /\ CallPinSkylink(skylink, lup, fault)
    \/ \E reader \in Backups, fault \in {"none", "upload"} :
          CallRestoreSkyfile(reader, fault)
    \/ \E additions, removals \in SUBSET Blockable :
          UpdateSkynetBlocklist(additions, removals)
    \/ Close

SpecSky == Init /\ [][NextSky]_vars

\* Two handlers serve streams concurrently and pay by contract.
Next ==
    \/ \E h \in Handlers :
          \/ ProcessPayment(h, {PayByContract, UnknownPaymentMethod})
          \/ PBC_ReadRequest(h, ConcurrentRequests)
          \/ PBC_Lock(h)
          \/ PBC_GetObligation(h)
          \/ PBC_Verify(h)
          \/ PBC_Sign(h)
          \/ PBC_Modify(h)
          \/ PBC_Respond(h)
          \/ NewStream(h)
    \/ AdvanceBlockHeight

Spec == Init /\ [][Next]_vars

\* One handler serves one stream after the other and pays by contract,
\* with every request.
NextSeq ==
    \/ ProcessPayment("h1", {PayByContract, UnknownPaymentMethod})
    \/ PBC_ReadRequest("h1", Requests)
    \/ PBC_Lock("h1")
    \/ PBC_GetObligation("h1")
    \/ PBC_Verify("h1")
    \/ PBC_Sign("h1")
    \/ PBC_Modify("h1")
    \/ PBC_Respond("h1")
    \/ NewStream("h1")
    \/ AdvanceBlockHeight

SpecSeq == Init /\ [][NextSeq]_vars

\* Two handlers serve streams concurrently and pay by ephemeral account.
NextEA ==
    \/ \E h \in Handlers :
          \/ ProcessPayment(h, {PayByEphemeralAccount, UnknownPaymentMethod})
          \/ EA_ReadRequest(h)
          \/ EA_Withdraw(h)
          \/ EA_Respond(h)
          \/ NewStream(h)
    \/ AdvanceBlockHeight

SpecEA == Init /\ [][NextEA]_vars

(***************************************************************************)
(* Properties                                                              *)
(***************************************************************************)
Returned(h) == pc[h] = "done"
PaidByContract(h) == Returned(h) /\ pr[h] = PayByContract
Accepted(h) == PaidByContract(h) /\ result[h].err = "nil"
Refused(h, cause) ==
    /\ PaidByContract(h)
    /\ result[h].err = "Invalid payment revision"
    /\ cause \in result[h].causes
ContractOf(h) == frame[h].req.ContractID
PersistedRevisionNumber(fcid) == recentRevision(storageObligations[fcid]).NewRevisionNumber

\* C1: whenever the revision persisted in a storage obligation changes,
\* under any interleaving of the handlers, its revision number is strictly
\* greater than the one it replaces.
C1_RevisionNumbersIncrease ==
    [][\A fcid \in {FC1, FC2} :
          storageObligations'[fcid] # storageObligations[fcid]
          => recentRevision(storageObligations'[fcid]).NewRevisionNumber
                > recentRevision(storageObligations[fcid]).NewRevisionNumber]_vars

\* Both handlers have paid on the same contract, one after the other, and
\* the obligation holds the later revision.
C1_Witness ==
    /\ Accepted("h1") /\ Accepted("h2")
    /\ ContractOf("h1") = ContractOf("h2")
    /\ frame["h1"].req.NewRevisionNumber < frame["h2"].req.NewRevisionNumber
    /\ PersistedRevisionNumber(ContractOf("h2")) = frame["h2"].req.NewRevisionNumber

\* C2: on one contract at most one handler is between loading the
\* obligation and persisting it, and two handlers whose payments on the
\* same contract were accepted were verified against different current
\* revisions and carried different revision numbers.
Loaded(h) == pc[h] \in {"pbc_verify", "pbc_sign", "pbc_modify"}
C2_OneHandlerPerContract ==
    \A h1 \in Handlers : \A h2 \in Handlers \ {h1} :
        /\ ~(Loaded(h1) /\ Loaded(h2) /\ ContractOf(h1) = ContractOf(h2))
        /\ (Accepted(h1) /\ Accepted(h2) /\ ContractOf(h1) = ContractOf(h2))
           => /\ frame[h1].currentRevision # frame[h2].currentRevision
              /\ frame[h1].req.NewRevisionNumber # frame[h2].req.NewRevisionNumber

\* Two requests on one contract carried the same revision number: the one
\* of h1 was accepted, the one of h2 was refused for its revision number.
C2_Witness ==
    /\ Accepted("h1")
    /\ Refused("h2", "ErrBadRevisionNumber")
    /\ ContractOf("h1") = ContractOf("h2")
    /\ frame["h1"].req.NewRevisionNumber = frame["h2"].req.NewRevisionNumber
    /\ frame["h2"].currentRevision = frame["h1"].paymentRevision

\* C5: an obligation lock is held only by a handler that is inside
\* managedPayByContract on that contract, after its lock and before its
\* return: a handler that has returned, on whatever path, holds no lock.
C5_LockReleasedOnReturn ==
    \A fcid \in FCIDs : \A h \in Handlers :
        lockedStorageObligations[fcid] = h
        => /\ pc[h] \in {"pbc_get", "pbc_verify", "pbc_sign", "pbc_modify", "pbc_respond"}
           /\ ContractOf(h) = fcid

\* h1 has returned with an error (it failed to persist the obligation) and
\* h2 has since taken the lock of that contract.
C5_Witness ==
    /\ PaidByContract("h1")
    /\ result["h1"].err = "Could not modify storage obligation"
    /\ pc["h2"] = "pbc_get"
    /\ ContractOf("h2") = ContractOf("h1")
    /\ lockedStorageObligations[ContractOf("h1")] = "h2"

\* C3 (as claimed): between the revision an accepted payment replaced and
\* the revision it persisted, the valid host payout rises by the amount, the
\* valid renter payout falls by the amount, the missed host output falls by
\* the collateral, the void output rises by the collateral, and every other
\* output value (the renter's missed output) is unchanged, so that the sums
\* of the valid and of the missed outputs are conserved.
RECURSIVE SumOfValues(_)
SumOfValues(outputs) ==
    IF outputs = <<>> THEN 0 ELSE Head(outputs).Value + SumOfValues(Tail(outputs))

C3_PaymentMovesOnlyAmountAndCollateral ==
    \A h \in Handlers :
        Accepted(h)
        => LET old == frame[h].currentRevision
               new == recentRevision(storageObligations[ContractOf(h)])
               amount == result[h].details.amount
               collateral == result[h].details.addedCollateral
           IN  /\ ValidHostPayout(new) = ValidHostPayout(old) + amount
               /\ ValidRenterPayout(new) = ValidRenterPayout(old) - amount
               /\ MissedHostOutput(new).Value = MissedHostOutput(old).Value - collateral
               /\ MissedVoidOutput(new).Value = MissedVoidOutput(old).Value + collateral
               /\ MissedRenterOutput(new).Value = MissedRenterOutput(old).Value
               /\ SumOfValues(new.NewValidProofOutputs) = SumOfValues(old.NewValidProofOutputs)
               /\ SumOfValues(new.NewMissedProofOutputs)
                     = SumOfValues(old.NewMissedProofOutputs)

\* The second end-to-end scenario of the payment protocol: a payment of 500
\* that moves 200 of collateral.
Scenario2Current ==
    [InitialRevision(FC1) EXCEPT
        !.NewRevisionNumber = 7,
        !.NewValidProofOutputs = <<SiacoinOutput(2000, "renter"), SiacoinOutput(1000, "host")>>,
        !.NewMissedProofOutputs = <<SiacoinOutput(500, "renter"), SiacoinOutput(500, "host"),
                                    SiacoinOutput(100, "void")>>]
Scenario2Request ==
    PayByContractRequest(FC1, 8, <<1500, 1500>>, <<500, 300, 300>>, "renterSig")

\* C4: a successful payment by contract returns the empty account id, as
\* amount the new valid host payout minus the current one and as collateral
\* the current missed host output minus the new one, and neither
\* subtraction underflows; on the scenario's revision and request the
\* amount is 500 and the collateral 200.
C4_DetailsOfContractPayment ==
    /\ \A h \in Handlers :
          Accepted(h)
          => LET cur == frame[h].currentRevision
                 new == frame[h].paymentRevision
                 details == result[h].details
             IN  /\ details.account = EmptyAccountID
                 /\ ValidHostPayout(new) >= ValidHostPayout(cur)
                 /\ MissedHostOutput(cur).Value >= MissedHostOutput(new).Value
                 /\ details.amount = ValidHostPayout(new) - ValidHostPayout(cur)
                 /\ details.addedCollateral
                       = MissedHostOutput(cur).Value - MissedHostOutput(new).Value
    /\ ~revisionFromRequestPanics(Scenario2Current, Scenario2Request)
    /\ verifyPayByContractRevision(Scenario2Current,
                                   revisionFromRequest(Scenario2Current, Scenario2Request),
                                   blockHeight)
          = [err |-> IF blockHeight > Scenario2Current.NewWindowEnd
                     THEN {"ErrLateRevision"} ELSE {},
             amount |-> IF blockHeight > Scenario2Current.NewWindowEnd THEN 0 ELSE 500,
             collateral |-> IF blockHeight > Scenario2Current.NewWindowEnd THEN 0 ELSE 200]

\* A payment of one coin that moved one coin of collateral was accepted.
C4_Witness ==
    /\ Accepted("h1")
    /\ result["h1"].details = newPaymentDetails(EmptyAccountID, 1, 1)
    /\ blockHeight <= Scenario2Current.NewWindowEnd

\* The reasons the claim C6 gives for a verification to fail, for a request
\* with as many values as the current revision has outputs.
SameCounts(cur, req) ==
    /\ Len(req.NewValidProofValues) = Len(cur.NewValidProofOutputs)
    /\ Len(req.NewMissedProofValues) = Len(cur.NewMissedProofOutputs)

MustBeRefused(cur, req, bh) ==
    LET v == req.NewValidProofValues
        m == req.NewMissedProofValues
    IN  \/ req.NewRevisionNumber <= cur.NewRevisionNumber
        \/ v[1] > ValidRenterPayout(cur)
        \/ v[2] < ValidHostPayout(cur)
        \/ v[2] - ValidHostPayout(cur) # ValidRenterPayout(cur) - v[1]
        \/ m[2] > MissedHostOutput(cur).Value
        \/ m[3] < MissedVoidOutput(cur).Value
        \/ MissedHostOutput(cur).Value - m[2] # m[3] - MissedVoidOutput(cur).Value
        \/ bh > cur.NewWindowEnd

\* C6: when the verification of a payment revision fails (revision number
\* not greater, renter not debited or host not credited equally, missed host
\* output not decreased by exactly what the void gained, underflow, block
\* height past the window end), managedPayByContract returns an error, the
\* obligation is the one that was loaded and no response is written.
C6_FailedVerificationChangesNothing ==
    /\ [](\A h \in Handlers :
            (PaidByContract(h) /\ result[h].err = "Invalid payment revision")
            => /\ result[h].details = Nil
               /\ storageObligations[ContractOf(h)] = frame[h].so
               /\ recentRevision(storageObligations[ContractOf(h)])
                     = frame[h].currentRevision
               /\ out[h] = <<>>)
    /\ [][\A h \in Handlers :
            (/\ pc[h] = "pbc_verify"
             /\ pc'[h] # "pbc_verify"
             /\ HasRecentRevision(frame[h].so)
             /\ SameCounts(recentRevision(frame[h].so), frame[h].req)
             /\ MustBeRefused(recentRevision(frame[h].so), frame[h].req, blockHeight))
            => /\ pc'[h] = "done"
               /\ result'[h].err = "Invalid payment revision"
               /\ result'[h].causes # {}
               /\ storageObligations' = storageObligations
               /\ out'[h] = <<>>]_vars

\* A payment whose only fault is that it moves collateral out of the host's
\* missed output without giving it to the void was refused.
C6_Witness ==
    /\ PaidByContract("h1")
    /\ result["h1"].err = "Invalid payment revision"
    /\ result["h1"].causes = {"ErrLowVoidOutput"}
    /\ storageObligations[ContractOf("h1")] = frame["h1"].so
    /\ out["h1"] = <<>>

\* C7 (as claimed): a request whose valid or missed value vector is shorter
\* or longer than the current revision's output vector is refused with the
\* output-count error returned by ProcessPayment, the obligation unchanged
\* and the lock released.
C7_OutputCountMismatchIsRefused ==
    \A h \in Handlers :
        (/\ PaidByContract(h)
         /\ frame[h].currentRevision # Nil
         /\ ~SameCounts(frame[h].currentRevision, frame[h].req))
        => /\ ~result[h].panic
           /\ result[h].err = "Invalid payment revision"
           /\ "ErrBadContractOutputCounts" \in result[h].causes
           /\ storageObligations[ContractOf(h)] = frame[h].so
           /\ lockedStorageObligations[ContractOf(h)] = NoHandler

\* C8: a payment request whose method is neither PayByEphemeralAccount
\* nor PayByContract ends ProcessPayment with the unknown-payment-method
\* error: only the header was read, no local of a payment method was set,
\* nothing was written, no payment details are returned, and the step takes
\* no lock, defers nothing, withdraws nothing and changes no obligation.
C8_UnknownPaymentMethod ==
    /\ [](\A h \in Handlers :
            (Returned(h) /\ pr[h] \notin {"none", PayByEphemeralAccount, PayByContract})
            => /\ result[h].err = "Could not handle payment method"
               /\ result[h].causes = {"ErrUnknownPaymentMethod"}
               /\ result[h].details = Nil
               /\ reads[h] = 1
               /\ frame[h] = InitialFrame
               /\ out[h] = <<>>)
    /\ [][\A h \in Handlers :
            (/\ pc[h] = "ProcessPayment"
             /\ pc'[h] # pc[h]
             /\ pr'[h] \notin {"none", PayByEphemeralAccount, PayByContract})
            => /\ pc'[h] = "done"
               /\ UNCHANGED <<storageObligations, lockedStorageObligations, deferred,
                              balances>>]_vars

\* h1 has returned from a request with an unknown payment method while h2
\* holds the lock of a contract.
C8_Witness ==
    /\ Returned("h1")
    /\ pr["h1"] = UnknownPaymentMethod
    /\ result["h1"].causes = {"ErrUnknownPaymentMethod"}
    /\ pc["h2"] = "pbc_modify"
    /\ lockedStorageObligations[ContractOf("h2")] = "h2"

\* A returned ephemeral-account payment that got past its withdrawal.
PaidByEphemeralAccount(h) == Returned(h) /\ pr[h] = PayByEphemeralAccount
Withdrawn(h) ==
    /\ PaidByEphemeralAccount(h)
    /\ result[h].err \notin {"Could not read PayByEphemeralAccountRequest",
                             "Withdraw failed", "Could not read payment request"}
ReportedEphemeralPayment(h) ==
    LET msg == frame[h].req.Message
    IN  /\ out[h] = <<PayByEphemeralAccountResponse(msg.Amount)>>
        /\ result[h] = Success(newPaymentDetails(msg.Account, msg.Amount, ZeroCurrency))

\* C9 (as claimed): an ephemeral-account payment whose withdrawal succeeded
\* has written the response with the amount of the message and has returned
\* (account, amount, 0).
C9_WithdrawalIsAlwaysReported ==
    \A h \in Handlers : Withdrawn(h) => ReportedEphemeralPayment(h)

\* C9 (amended): an ephemeral-account payment whose withdrawal succeeded has
\* either written the response with the amount of the message and returned
\* (account, amount, 0), or failed to write the response, written nothing
\* and returned an error; no step of an ephemeral-account payment changes a
\* storage obligation, an obligation lock or the deferred unlocks.
C9_EphemeralPayment ==
    /\ [](\A h \in Handlers :
            Withdrawn(h)
            => \/ ReportedEphemeralPayment(h)
               \/ /\ result[h].err = "Could not send PayByEphemeralAccountResponse"
                  /\ result[h].details = Nil
                  /\ out[h] = <<>>)
    /\ [][\A h \in Handlers :
            (pc'[h] # pc[h] /\ PayByEphemeralAccount \in {pr[h], pr'[h]})
            => UNCHANGED <<storageObligations, lockedStorageObligations, deferred>>]_vars

\* A withdrawal of one coin was made and reported.
C9_Witness ==
    /\ Withdrawn("h1")
    /\ result["h1"].err = "nil"
    /\ result["h1"].details = newPaymentDetails("acc1", 1, ZeroCurrency)
    /\ out["h1"] = <<PayByEphemeralAccountResponse(1)>>
    /\ balances["acc1"] = MaxCur

\* C10: a payment by contract verifies, co-signs, persists and replies in
\* that order: when the host signature is written the persisted obligation
\* is the handler's signed copy holding the verified payment revision, and a
\* handler that failed to sign or to persist has written nothing.
VerifiedAndSigned(h) ==
    LET f == frame[h]
    IN  /\ verifyPaymentRevision(f.currentRevision, f.paymentRevision,
                                 f.currentRevision.NewWindowEnd, ZeroCurrency) = {}
        /\ f.txn # Nil
        /\ f.txn.FileContractRevisions = <<f.paymentRevision>>
        /\ recentRevision(f.so) = f.paymentRevision

C10_SignatureSentAfterPersist ==
    /\ [](\A h \in Handlers :
            /\ pc[h] \in {"managedPayByContract", "pbc_lock", "pbc_get", "pbc_verify",
                          "pbc_sign", "pbc_modify", "pbc_respond"}
               => out[h] = <<>>
            /\ pc[h] \in {"pbc_modify", "pbc_respond"} => VerifiedAndSigned(h)
            /\ pc[h] = "pbc_respond" => storageObligations[ContractOf(h)] = frame[h].so
            /\ (PaidByContract(h) /\ result[h].err # "nil") => out[h] = <<>>)
    /\ [][\A h \in Handlers :
            (pr[h] = PayByContract /\ out'[h] # out[h] /\ out'[h] # <<>>)
            => /\ pc[h] = "pbc_respond"
               /\ VerifiedAndSigned(h)
               /\ storageObligations[ContractOf(h)] = frame[h].so
               /\ out'[h] = <<PayByContractResponse(
                                 HostSignatureOf(frame[h].paymentRevision))>>]_vars

\* h1 has failed to persist and has written nothing; h2 has then persisted
\* its payment on the same contract and written the host's signature.
C10_Witness ==
    /\ PaidByContract("h1")
    /\ result["h1"].err = "Could not modify storage obligation"
    /\ out["h1"] = <<>>
    /\ Accepted("h2")
    /\ ContractOf("h2") = ContractOf("h1")
    /\ out["h2"] = <<PayByContractResponse(HostSignatureOf(frame["h2"].paymentRevision))>>
    /\ recentRevision(storageObligations[ContractOf("h2")]) = frame["h2"].paymentRevision

\* C11: after every successful payment by contract the obligation's
\* revision transaction set is exactly one transaction holding exactly one
\* revision, the verified payment revision, and exactly two signatures: the
\* renter's (public key index 0, covering revision 0), then the host's; the
\* obligation's most recent revision is the payment revision.
CoSigned(ob, f) ==
    LET set == ob.RevisionTransactionSet
    IN  /\ Len(set) = 1
        /\ set[1].FileContractRevisions = <<f.paymentRevision>>
        /\ verifyPaymentRevision(f.currentRevision, f.paymentRevision,
                                 f.currentRevision.NewWindowEnd, ZeroCurrency) = {}
        /\ Len(set[1].TransactionSignatures) = 2
        /\ set[1].TransactionSignatures[1] =
              [ParentID |-> f.currentRevision.ParentID,
               CoveredFields |-> [FileContractRevisions |-> <<0>>],
               PublicKeyIndex |-> 0,
               Signature |-> f.req.Signature]
        /\ set[1].TransactionSignatures[2].Signature = HostSignatureOf(f.paymentRevision)
        /\ recentRevision(ob) = f.paymentRevision

C11_RevisionTransactionSet ==
    /\ [](\A h \in Handlers :
            pc[h] = "pbc_respond" => CoSigned(storageObligations[ContractOf(h)], frame[h]))
    /\ [][\A h \in Handlers :
            (pc[h] # "done" /\ pc'[h] = "done" /\ pr[h] = PayByContract
                /\ result'[h].err = "nil")
            => CoSigned(storageObligations'[ContractOf(h)], frame'[h])]_vars

\* h2 has paid on FC2 after h1 has paid on FC1: each obligation holds the
\* one co-signed transaction of its handler's payment revision.
C11_Witness ==
    /\ Accepted("h1") /\ ContractOf("h1") = FC1
    /\ Accepted("h2") /\ ContractOf("h2") = FC2
    /\ \A h \in Handlers : CoSigned(storageObligations[ContractOf(h)], frame[h])
    /\ recentRevision(storageObligations[FC1]).NewRevisionNumber = 2
    /\ Len(storageObligations[FC2].RevisionTransactionSet[1].TransactionSignatures) = 2

\* C12: the revision built by revisionFromRequest differs from the current
\* revision only in the revision number and in the values of the valid and
\* missed proof outputs: output i keeps the unlock hash of the current
\* revision's output i, every other field is the current revision's, and
\* the current revision is not modified.
OtherFieldsKept(cur, rev) ==
    [rev EXCEPT !.NewRevisionNumber = cur.NewRevisionNumber,
                !.NewValidProofOutputs = cur.NewValidProofOutputs,
                !.NewMissedProofOutputs = cur.NewMissedProofOutputs] = cur

UnlockHashesKept(curOutputs, revOutputs) ==
    /\ Len(revOutputs) = Len(curOutputs)
    /\ \A i \in 1 .. Len(curOutputs) :
          revOutputs[i].UnlockHash = curOutputs[i].UnlockHash

OnlyNumberAndValuesDiffer(cur, rev) ==
    /\ OtherFieldsKept(cur, rev)
    /\ UnlockHashesKept(cur.NewValidProofOutputs, rev.NewValidProofOutputs)
    /\ UnlockHashesKept(cur.NewMissedProofOutputs, rev.NewMissedProofOutputs)

OutputsFromValues(curOutputs, values, revOutputs) ==
    /\ Len(revOutputs) = Len(values)
    /\ Len(values) <= Len(curOutputs)
    /\ \A i \in 1 .. Len(values) :
          revOutputs[i] = SiacoinOutput(values[i], curOutputs[i].UnlockHash)

LocksHeldBy(h) == {fcid \in FCIDs : lockedStorageObligations[fcid] = h}
HoldsItsLock(h) == pc[h] \in {"pbc_get", "pbc_verify", "pbc_sign", "pbc_modify",
                               "pbc_respond"}
StepOf(h) ==
    \/ ProcessPayment(h, {PayByContract, UnknownPaymentMethod})
    \/ PBC_ReadRequest(h, ConcurrentRequests)
    \/ PBC_Lock(h)
    \/ PBC_GetObligation(h)
    \/ PBC_Verify(h)
    \/ PBC_Sign(h)
    \/ PBC_Modify(h)
    \/ PBC_Respond(h)
    \/ NewStream(h)

C13_IndependentContracts ==
    /\ \A h \in Handlers :
          /\ Cardinality(LocksHeldBy(h)) <= 1
          /\ Len(deferred[h]) <= 1
          /\ HoldsItsLock(h) => LocksHeldBy(h) = {ContractOf(h)}
          /\ ~HoldsItsLock(h) => LocksHeldBy(h) = {}
          /\ pc[h] = "pbc_lock"
             => IF CanLockStorageObligation(ContractOf(h))
                THEN ENABLED PBC_Lock(h)
                ELSE LET g == lockedStorageObligations[ContractOf(h)]
                     IN  /\ g \in Handlers \ {h}
                         /\ HoldsItsLock(g)
                         /\ ENABLED StepOf(g)
          /\ pc[h] # "pbc_lock" => ENABLED StepOf(h)
    /\ \E h \in Handlers : ENABLED StepOf(h)

\* h1 is persisting a payment on FC1 while h2 is signing one on FC2: each
\* holds the lock of its own contract only.
C13_Witness ==
    /\ pc["h1"] = "pbc_modify" /\ ContractOf("h1") = FC1
    /\ pc["h2"] = "pbc_sign" /\ ContractOf("h2") = FC2
    /\ lockedStorageObligations[FC1] = "h1"
    /\ lockedStorageObligations[FC2] = "h2"
    /\ recentRevision(storageObligations[FC1]).NewRevisionNumber = 2

\* C14: the obligation lock is never held while the handler reads from the
\* stream: a payment by contract has read the payment header and the
\* PayByContractRequest when it acquires the lock, and reads nothing from
\* the stream between acquiring the lock and releasing it.
C14_NoStreamReadUnderLock ==
    /\ [](\A h \in Handlers :
            /\ pc[h] \in {"ProcessPayment", "managedPayByContract"}
               => LocksHeldBy(h) = {} /\ deferred[h] = <<>>
            /\ LocksHeldBy(h) # {} => reads[h] = 2)
    /\ [][\A h \in Handlers :
            /\ reads'[h] # reads[h]
               => /\ LocksHeldBy(h) = {}
                  /\ LocksHeldBy(h)' = {}
                  /\ \A fcid \in FCIDs :
                        lockedStorageObligations'[fcid] = lockedStorageObligations[fcid]
            /\ (LocksHeldBy(h) = {} /\ LocksHeldBy(h)' # {})
               => /\ reads[h] = 2 /\ reads'[h] = 2
                  /\ pr[h] = PayByContract
                  /\ frame[h].req # Nil
                  /\ LocksHeldBy(h)' = {frame[h].req.ContractID}]_vars

\* h1 holds the lock of FC1 having read the header and the request, while
\* h2 has read its header only and is about to read its request.
C14_Witness ==
    /\ pc["h1"] = "pbc_verify" /\ reads["h1"] = 2
    /\ lockedStorageObligations[FC1] = "h1"
    /\ pc["h2"] = "managedPayByContract" /\ reads["h2"] = 1
    /\ LocksHeldBy("h2") = {}

(***************************************************************************)
(* Properties of the sector cache                                          *)
(***************************************************************************)
R0 == MerkleRoot(Sector(0))
R1 == MerkleRoot(Sector(1))

\* The cache after appending the sectors of a sequence, first to last.
RECURSIVE appendSectors(_, _)
appendSectors(s, datas) ==
    IF datas = <<>> THEN s
    ELSE appendSectors(appendSector(s, Head(datas)).s, Tail(datas))

\* C15: for every cache and every k, appending k sectors (any contents,
\* also identical ones and ones whose root is in the list already) and
\* then dropping k sectors ends with the roots, the gained sectors and the
\* removed roots the cache had before.
C15_AppendThenDropCancels ==
    \A k \in 0 .. MaxRoots :
        \A datas \in [1 .. k -> SectorData] :
            LET after == dropSectors(appendSectors(Cache, datas), k)
            IN  /\ after.err = "nil"
                /\ after.s = Cache

\* C16: after any sequence of successful appends, drops and swaps the roots
\* of the cache are the plain sequence obtained from the base roots by
\* pushing each appended sector's Merkle root at the end, removing the last
\* n roots for drop(n) and exchanging two positions for a swap.
C16_RootsAreBasePlusMutations ==
    /\ merkleRoots = plainRoots
    /\ ret.hash # ZeroHash => ret = ReturnsHash(cachedMerkleRoot(plainRoots), "nil")

\* A sector of ones was appended to a base list of roots of zeroes and was
\* swapped to the front, and another one was appended or swapped to the
\* end: the roots are the plain sequence.
C16_Witness ==
    /\ merkleRoots = <<R1, R0, R1>>
    /\ plainRoots = <<R1, R0, R1>>
    /\ sectorsRemoved = {}
    /\ DOMAIN sectorsGained = {R1}
    /\ ret = ReturnsHash(cachedMerkleRoot(<<R1, R0, R1>>), "nil")

\* The number of times a root occurs in a list of roots.
RECURSIVE Occurrences(_, _)
Occurrences(roots, root) ==
    IF roots = <<>> THEN 0
    ELSE (IF Head(roots) = root THEN 1 ELSE 0) + Occurrences(Tail(roots), root)

\* C17: dropSectors(n) with n at most the number of roots removes exactly
\* the last n roots; each removed root, in turn, is deleted from the gained
\* sectors if it is among them and is added to the removed roots otherwise
\* (so a gained root that is removed twice ends among the removed roots);
\* the roots before the cut and the other entries of gained and removed
\* are unchanged.
C17_DropSectors ==
    [][\A n \in 0 .. MaxRoots + 1 :
        (n <= Len(merkleRoots) /\ DropSectors(n))
        => LET kept == SubSeq(merkleRoots, 1, Len(merkleRoots) - n)
               dropped == SubSeq(merkleRoots, Len(merkleRoots) - n + 1, Len(merkleRoots))
           IN  /\ merkleRoots' = kept
               /\ Len(merkleRoots') = Len(merkleRoots) - n
               /\ ret' = ReturnsHash(cachedMerkleRoot(kept), "nil")
               /\ \A root \in SectorRoots :
                     IF Occurrences(dropped, root) = 0
                     THEN /\ root \in DOMAIN sectorsGained' <=> root \in DOMAIN sectorsGained
                          /\ root \in DOMAIN sectorsGained
                             => sectorsGained'[root] = sectorsGained[root]
                          /\ root \in sectorsRemoved' <=> root \in sectorsRemoved
                     ELSE /\ root \notin DOMAIN sectorsGained'
                          /\ root \in sectorsRemoved'
                             <=> \/ root \in sectorsRemoved
                                 \/ root \notin DOMAIN sectorsGained
                                 \/ Occurrences(dropped, root) > 1]_vars

\* The last two of three roots were dropped: the appended sector of ones is
\* no longer gained, the base root of zeroes is removed, the first root is
\* kept.
C17_Witness ==
    /\ merkleRoots = <<R0>>
    /\ sectorsRemoved = {R0}
    /\ sectorsGained = EmptyMap
    /\ ret = ReturnsHash(cachedMerkleRoot(<<R0>>), "nil")
    /\ CallerRoots = <<R0, R0>>
    /\ ~aliased

\* C18: appendSector on data of exactly SectorSize bytes pushes the Merkle
\* root of the data as the last root, sets gained[root] to the data, removes
\* the root from the removed roots if it was there, changes nothing else of
\* the cache and returns the Merkle root of the new list of roots.
C18_AppendSector ==
    [][\A sectorData \in AppendInputs :
        (Len(sectorData) = SectorSize /\ AppendSector(sectorData))
        => LET root == MerkleRoot(sectorData)
           IN  /\ merkleRoots' = Append(merkleRoots, root)
               /\ merkleRoots'[Len(merkleRoots')] = root
               /\ DOMAIN sectorsGained' = DOMAIN sectorsGained \cup {root}
               /\ sectorsGained'[root] = sectorData
               /\ \A other \in DOMAIN sectorsGained \ {root} :
                     sectorsGained'[other] = sectorsGained[other]
               /\ sectorsRemoved' = sectorsRemoved \ {root}
               /\ ret' = ReturnsHash(cachedMerkleRoot(merkleRoots'), "nil")]_vars

\* The sector of zeroes was appended after its root had been dropped from
\* the base list: the root is the last root, is gained and is no longer
\* removed.
C18_Witness ==
    /\ CallerRoots = <<R0>>
    /\ merkleRoots = <<R1, R0>>
    /\ DOMAIN sectorsGained = {R0, R1}
    /\ sectorsGained[R0] = Sector(0)
    /\ sectorsRemoved = {}
    /\ ret = ReturnsHash(cachedMerkleRoot(<<R1, R0>>), "nil")

\* C19: appendSector with data whose length is not SectorSize and
\* dropSectors with n greater than the number of roots return an error and
\* leave roots, gained and removed unchanged.
C19_FailedPrecondition ==
    [][/\ \A sectorData \in AppendInputs :
            (Len(sectorData) # SectorSize /\ AppendSector(sectorData))
            => /\ ret'.err # "nil"
               /\ ret'.hash = ZeroHash
               /\ UNCHANGED <<merkleRoots, sectorsGained, sectorsRemoved>>
       /\ \A n \in 0 .. MaxRoots + 1 :
            (n > Len(merkleRoots) /\ DropSectors(n))
            => /\ ret'.err # "nil"
               /\ ret'.hash = ZeroHash
               /\ UNCHANGED <<merkleRoots, sectorsGained, sectorsRemoved>>]_vars

\* A call has failed on a cache that holds roots, a gained sector and a
\* removed root.
C19_Witness ==
    /\ ret.err \in {"trying to append data of length", "trying to drop more sectors"}
    /\ merkleRoots = <<R1>>
    /\ DOMAIN sectorsGained = {R1}
    /\ sectorsRemoved = {R0}

C21_CallerRootsUnchanged == [][CallerRoots' = CallerRoots]_vars

(***************************************************************************)
(* Properties of the SwapSector instruction and of ProgramData             *)
(***************************************************************************)
Indices == 0 .. MaxRoots
Below(i, roots) == i \in Indices /\ i < Len(roots)

\* The list with the elements at offsets i and j (counted from 0) exchanged.
Exchanged(roots, i, j) ==
    [k \in 1 .. Len(roots) |->
        IF k = i + 1 THEN roots[j + 1]
        ELSE IF k = j + 1 THEN roots[i + 1]
        ELSE roots[k]]

C24_Uint64Returns ==
    /\ programData.Uint64 # NotImplementedYet
    /\ programData.threadedFetchData # NotImplementedYet

(***************************************************************************)
(* Properties of the skyfile calls                                         *)
(***************************************************************************)
Steps == call.steps
StepsOf(evs) == {i \in 1 .. Len(Steps) : Steps[i].ev \in evs}

\* The uploads of a base sector and the uploads of file data in the last
\* call.
BaseUploads ==
    {i \in StepsOf({"callUploadStreamFromReader"}) : Steps[i].sector # NoSector}
BlockedAtCall(root) == HashObject(root) \in call.blocked

\* C25: UploadSkyfile uploads no base sector whose skylink is on the
\* blocklist: before every upload of a base sector the blocklist was
\* consulted for its skylink, and a blocked skylink returns the blocked
\* error with no base sector uploaded.
C25_NoBlockedBaseSectorUploaded ==
    call.op = "UploadSkyfile"
    => \A i \in BaseUploads :
          LET root == MerkleRoot(Steps[i].sector)
          IN  /\ ~BlockedAtCall(root)
              /\ \E j \in 1 .. i - 1 :
                    Steps[j].ev = "IsBlocked" /\ Steps[j].skylink.MerkleRoot = root

\* The skylink or root a download, pin or restore was called with.
Downloads == {"DownloadByRoot", "DownloadSkylink", "DownloadSkylinkBaseSector"}
GivenSkylink ==
    IF call.op = "RestoreSkyfile" THEN LoadString(call.backup.skylinkStr)
    ELSE call.skylink
GivenBlocked ==
    /\ call.op \in Downloads \cup {"PinSkylink", "RestoreSkyfile"}
    /\ call.op = "RestoreSkyfile" => ~call.backup.corrupt
    /\ BlockedAtCall(GivenSkylink.MerkleRoot)
NothingFetched ==
    StepsOf({"managedDownloadByRoot", "managedDownloadSkylink", "skylinkDataSource",
             "decryptBaseSector", "ParseSkyfileMetadata", "callUploadStreamFromReader",
             "AddSkylink"}) = {}

\* C26 as stated: the three downloads, PinSkylink and RestoreSkyfile given
\* a blocked skylink or root return the blocked error before any sector is
\* fetched, decoded, decrypted or uploaded.
C26_BlockedReturnsBlocked ==
    GivenBlocked => call.err = ErrSkylinkBlocked /\ NothingFetched

\* C26: given a blocked skylink or root, PinSkylink and RestoreSkyfile
\* return the blocked error, and so do DownloadSkylink,
\* DownloadSkylinkBaseSector and DownloadByRoot unless the renter's thread
\* group is stopped, when they return its error; in every case no sector is
\* fetched, decoded, decrypted or uploaded.
C26_BlockedRefused ==
    GivenBlocked
    => /\ call.err = IF call.stopped /\ call.op \in Downloads THEN ErrStopped
                     ELSE ErrSkylinkBlocked
       /\ NothingFetched

\* The backup of the blocked large skyfile was refused after its skylink
\* was read and looked up.
C26_Witness ==
    /\ call.op = "RestoreSkyfile"
    /\ call.backup = Backup(LargeSkyfile, FALSE)
    /\ call.err = ErrSkylinkBlocked
    /\ Steps = <<Did("RestoreSkylink"), Checked(SkylinkOf(LargeSkyfile))>>

\* The file an upload was given, and what managedUploadSkyfile decides on.
GivenFile == call.reader.stream
ReachedUpload == call.op = "UploadSkyfile" /\ call.sup.SkykeyName # "lost"
Ends == Len(GivenFile) < SectorSize /\ ~call.reader.readErr
Fits ==
    SkyfileLayoutSize + call.reader.metadata.size + Len(GivenFile) <= SectorSize
MetadataOk == ~call.reader.metadataErr /\ call.reader.metadata.valid
SmallBuilt ==
    \E i \in StepsOf({"BuildBaseSector"}) :
       /\ Steps[i].sector.layout.FanoutSize = 0
       /\ Steps[i].sector.fanout = <<>>
       /\ Steps[i].sector.file = GivenFile
LargeHanded ==
    /\ Len(Steps) >= 2
    /\ Steps[1].ev = "AddReadBuffer"
    /\ Steps[1].stream = GivenFile
    /\ Steps[2].ev \in {"callUploadStreamFromReader", "managedCreateFileNodeFromReader"}
    /\ Steps[2].stream = GivenFile
    /\ Steps[2].sector = NoSector
    /\ \A i \in StepsOf({"BuildBaseSector"}) :
          /\ Steps[i].sector.layout.FanoutSize > 0
          /\ Len(Steps[i].sector.fanout) = Steps[i].sector.layout.FanoutSize
          /\ Steps[i].sector.file = <<>>

\* C27 as stated: a base sector without fanout is built exactly when the
\* reader ends within the first SectorSize bytes and layout, metadata and
\* file fit in a sector; in every other case the bytes read are handed
\* back and the file is uploaded as a large file.
C27_SmallExactlyWhenFits ==
    ReachedUpload
    => /\ SmallBuilt <=> (Ends /\ Fits)
       /\ ~(Ends /\ Fits) => LargeHanded

\* C27: a base sector without fanout holding the file is built exactly when
\* the reader ends within the first SectorSize bytes, its metadata is
\* obtained and valid, and layout, metadata and file fit in a sector; when
\* the reader ends there but the metadata is not obtained or not valid the
\* upload fails and nothing is built or uploaded; in every other case the
\* bytes read are handed back, none lost or duplicated, and the file goes
\* to the large-file upload, whose base sector carries a fanout. The
\* reader ends within the first SectorSize bytes when it ends before that
\* many bytes were read.
C27_SmallOrLarge ==
    ReachedUpload
    => /\ SmallBuilt <=> (Ends /\ MetadataOk /\ Fits)
       /\ (Ends /\ ~MetadataOk)
          => /\ call.err = IF call.reader.metadataErr THEN "no metadata"
                           ELSE ErrInvalidMetadata
             /\ Steps = <<Deleted(call.sup.SiaPath),
                          Deleted(ExtendedSiaPath(call.sup.SiaPath))>>
       /\ (~Ends \/ (MetadataOk /\ ~Fits)) => LargeHanded

\* A file of SectorSize bytes was handed back whole and uploaded as a large
\* file with one root in the fanout.
C27_Witness ==
    /\ call.op = "UploadSkyfile"
    /\ call.reader = UploadReader(SectorSize, FALSE, SkyfileMetadata(TRUE, 0), FALSE)
    /\ call.err = "nil"
    /\ call.returned = SkylinkOf(LargeSkyfile)
    /\ LargeHanded
    /\ \E i \in StepsOf({"BuildBaseSector"}) : Steps[i].sector.layout.FanoutSize = 1

\* The header size managedCreateSkylinkFromFileNode computed, if it got
\* that far.
Sized ==
    StepsOf({"SkyfileMetadataBytes"}) # {} /\ StepsOf({"skyfileEncodeFanout"}) # {}
LenOf(ev) == Len(Steps[CHOOSE i \in StepsOf({ev}) : TRUE].stream)
HeaderSize == SkyfileLayoutSize + LenOf("SkyfileMetadataBytes") + LenOf("skyfileEncodeFanout")

\* C28: when layout, metadata and fanout exceed SectorSize, creating the
\* skylink fails with the metadata-too-big error, no base sector is built,
\* no skylink is added to the file node and no base sector is uploaded;
\* every base sector built has layout, metadata and fanout within
\* SectorSize.
C28_MetadataTooBig ==
    call.op = "UploadSkyfile"
    => /\ (Sized /\ HeaderSize > SectorSize)
          => /\ call.err = ErrMetadataTooBig
             /\ StepsOf({"BuildBaseSector", "AddSkylink"}) = {}
             /\ BaseUploads = {}
       /\ \A i \in StepsOf({"BuildBaseSector"}) :
             SkyfileLayoutSize + Len(Steps[i].sector.metadata)
                + Len(Steps[i].sector.fanout) <= SectorSize

\* A file of more than a sector with metadata of a sector was uploaded and
\* refused when its skylink was to be created.
C28_Witness ==
    /\ call.op = "UploadSkyfile"
    /\ Len(GivenFile) = SectorSize + 1
    /\ call.reader.metadata.size = SectorSize
    /\ Sized
    /\ HeaderSize > SectorSize
    /\ call.err = ErrMetadataTooBig

\* The redundancy a call asks for its base sector.
GivenRedundancy ==
    IF call.op = "RestoreSkyfile"
    THEN call.backup.baseSector.layout.FanoutDataPieces
            + call.backup.baseSector.layout.FanoutParityPieces
    ELSE call.sup.BaseChunkRedundancy
BaseChunkRedundancy ==
    IF GivenRedundancy = 0 THEN SkyfileDefaultBaseChunkRedundancy ELSE GivenRedundancy

\* C29: every upload of a base sector (by a small or large upload, a pin or
\* a restore) uses 1 data piece, the redundancy less one parity pieces and
\* the plaintext cipher, a redundancy of 0 standing for the default; every
\* piece stored is the base sector itself and has its Merkle root.
C29_BaseSectorUploadParams ==
    call.op \in {"UploadSkyfile", "PinSkylink", "RestoreSkyfile"}
    => \A i \in BaseUploads :
          LET up == Steps[i].up
              pieces == Pieces(up, Steps[i].sector)
          IN  /\ up.DataPieces = 1
              /\ up.ParityPieces = BaseChunkRedundancy - 1
              /\ up.CipherType = TypePlain
              /\ Len(pieces) = BaseChunkRedundancy
              /\ \A k \in 1 .. Len(pieces) :
                    /\ pieces[k] = pieces[1]
                    /\ pieces[k].shard = 0 /\ pieces[k].key = 0
                    /\ MerkleRoot(pieces[k].of) = MerkleRoot(Steps[i].sector)

\* The encrypted skyfile was pinned without a redundancy: its base sector
\* went up with one data piece and the default redundancy less one parity
\* pieces.
C29_Witness ==
    /\ call.op = "PinSkylink"
    /\ call.skylink = SkylinkOf(EncryptedSkyfile(FileSkykey))
    /\ call.sup.BaseChunkRedundancy = 0
    /\ call.err = "nil"
    /\ \E i \in BaseUploads :
          Steps[i].up.ParityPieces = SkyfileDefaultBaseChunkRedundancy - 1

RootsListed == {merkleRoots[i] : i \in DOMAIN merkleRoots}

\* C33: after any sequence of appends and drops, also of sectors with the
\* same contents and on base roots that repeat, no root marked as removed
\* is in the list of roots, so that the deletions of a commit never take
\* from the sector store a sector the list of roots references.
C33_RemovedNotInRoots == RootsListed \cap sectorsRemoved = {}

\* C34: after any sequence of appends, drops and swaps on base roots of
\* sectors the host stores, every root in the list of roots is gained or
\* in the sector store, and readSector succeeds for every root hasSector
\* finds, also when a sector was appended twice and one copy was dropped.
C34_ListedRootsAreReadable ==
    \A root \in SectorRoots :
        hasSector(Cache, root)
        => /\ root \in DOMAIN sectorsGained \/ root \in HostSectors
           /\ readSector(Cache, root).err = "nil"

\* C35: in every state of a sector cache no root is both staged in gained
\* and marked as removed.
C35_GainedAndRemovedDisjoint == DOMAIN sectorsGained \cap sectorsRemoved = {}

\* The root of the host's sector of zeroes was dropped and marked as
\* removed, then a sector of zeroes was appended: its root is gained, in
\* the list and no longer marked, while nothing else is removed.
C35_Witness ==
    /\ plainRoots = <<R0>>
    /\ callerLen > 0
    /\ DOMAIN sectorsGained = {R0}
    /\ sectorsRemoved = {}
    /\ ret = ReturnsHash(cachedMerkleRoot(<<R0>>), "nil")

(***************************************************************************)
(* The frame of the SwapSector instruction                                 *)
(***************************************************************************)

PayByContractFails(h) ==
    /\ pc[h] # "done"
    /\ pc'[h] = "done"
    /\ pr[h] = PayByContract
    /\ result'[h].err # "nil"

\* C36 (as stated): whenever managedPayByContract returns an error, a failed
\* write of the response included, the obligation's most recent persisted
\* revision is the one the handler loaded as the current revision.
C36_ErrorLeavesRevision ==
    [][\A h \in Handlers :
          (PayByContractFails(h) /\ frame[h].currentRevision # Nil)
          => recentRevision(storageObligations'[ContractOf(h)])
                = frame[h].currentRevision]_vars

\* C36 (amended): the only step of a payment by contract that changes a
\* persisted obligation is the persist step that succeeds and goes on to
\* the reply.  A handler that returns any error but the failed write of the
\* response has not passed that step: the obligation's most recent revision
\* is the one it loaded.  A handler whose write of the response fails
\* returns an error, has written nothing, and leaves the obligation
\* holding the co-signed payment revision in place of the one it loaded.
C36_PayByContractResult ==
    /\ [][\A h \in Handlers :
            (pc'[h] # pc[h] /\ pr[h] = PayByContract
                /\ storageObligations' # storageObligations)
            => /\ pc[h] = "pbc_modify"
               /\ pc'[h] = "pbc_respond"
               /\ storageObligations' =
                     [storageObligations EXCEPT ![ContractOf(h)] = frame[h].so]]_vars
    /\ [][\A h \in Handlers :
            PayByContractFails(h)
            => IF result'[h].err = "Could not send PayByContractResponse"
               THEN /\ pc[h] = "pbc_respond"
                    /\ out'[h] = <<>>
                    /\ recentRevision(storageObligations'[ContractOf(h)])
                          = frame[h].paymentRevision
                    /\ frame[h].paymentRevision # frame[h].currentRevision
               ELSE /\ pc[h] # "pbc_respond"
                    /\ frame[h].currentRevision # Nil
                       => recentRevision(storageObligations'[ContractOf(h)])
                             = frame[h].currentRevision]_vars

\* h1 has failed to write its response and has returned an error: the
\* obligation holds its payment revision.  h2 has then failed to persist a
\* payment on the same contract, which it verified against that revision,
\* and the obligation still holds the revision of h1.
C36_Witness ==
    /\ PaidByContract("h1")
    /\ result["h1"].err = "Could not send PayByContractResponse"
    /\ out["h1"] = <<>>
    /\ PaidByContract("h2")
    /\ result["h2"].err = "Could not modify storage obligation"
    /\ ContractOf("h2") = ContractOf("h1")
    /\ frame["h2"].currentRevision = frame["h1"].paymentRevision
    /\ recentRevision(storageObligations[ContractOf("h1")]) = frame["h1"].paymentRevision
    /\ frame["h1"].currentRevision # frame["h1"].paymentRevision

\* A step in which handler h returns an error from an ephemeral-account
\* payment.
PayByEphemeralAccountFails(h) ==
    /\ pc[h] # "done"
    /\ pc'[h] = "done"
    /\ pr[h] = PayByEphemeralAccount
    /\ result'[h].err # "nil"

\* The balances after the amount of handler h's message was withdrawn.
BalancesLess(h) ==
    [balances EXCEPT ![frame[h].req.Message.Account] = @ - frame[h].req.Message.Amount]

\* C37 (as stated): a handler that has withdrawn funds from the account
\* does not return an error; a failed write of the response included.
C37_NoErrorAfterWithdrawal ==
    [][\A h \in Handlers :
          (pc[h] = "ea_respond" /\ frame[h].req.Message.Amount > 0 /\ pc'[h] = "done")
          => result'[h].err = "nil"]_vars

\* C37 (amended): the balances change in one step only of an
\* ephemeral-account payment, the withdrawal that succeeds, which takes
\* the amount of the message off the account and is the only way to the
\* write of the response.  A handler that returns because the body could
\* not be read or because the withdrawal failed has withdrawn nothing and
\* has written no response.  A handler whose write of the response fails
\* returns an error and has written nothing, and the funds it withdrew
\* stay withdrawn.
C37_EphemeralPaymentResult ==
    /\ [][\A h \in Handlers :
            (pc'[h] # pc[h] /\ pr[h] = PayByEphemeralAccount
                /\ (balances' # balances \/ pc'[h] = "ea_respond"))
            => /\ pc[h] = "ea_withdraw"
               /\ pc'[h] = "ea_respond"
               /\ balances' = BalancesLess(h)]_vars
    /\ [][\A h \in Handlers :
            PayByEphemeralAccountFails(h)
            => /\ out'[h] = <<>>
               /\ balances' = balances
               /\ IF result'[h].err = "Could not send PayByEphemeralAccountResponse"
                  THEN pc[h] = "ea_respond"
                  ELSE /\ pc[h] \in {"staticPayByEphemeralAccount", "ea_withdraw"}
                       /\ result'[h].err \in {"Could not read PayByEphemeralAccountRequest",
                                              "Withdraw failed"}]_vars

\* h1 has withdrawn one coin and has failed to write the response: it has
\* returned an error and the coin is gone from the account.  h2 has sent a
\* message with a bad signature: its withdrawal has failed, it has written
\* nothing and it has taken nothing off the account.
C37_Witness ==
    /\ PaidByEphemeralAccount("h1")
    /\ result["h1"].err = "Could not send PayByEphemeralAccountResponse"
    /\ frame["h1"].req.Message.Amount = 1
    /\ out["h1"] = <<>>
    /\ PaidByEphemeralAccount("h2")
    /\ result["h2"] = Failure("Withdraw failed", {"ErrWithdrawalInvalidSignature"})
    /\ frame["h2"].req.Message.Amount = 1
    /\ out["h2"] = <<>>
    /\ balances["acc1"] = MaxCur

(***************************************************************************)
(* Conversions of siafiles                                                 *)
(***************************************************************************)

\* The call was a conversion of a siafile.
Converted == call.op = "CreateSkylinkFromSiafile"

\* The steps of the call that uploaded the base sector of the skylink.
BaseSectorUploads(skylink) ==
    {i \in 1 .. Len(call.steps) :
        /\ call.steps[i].ev = "callUploadStreamFromReader"
        /\ MerkleRoot(call.steps[i].sector) = skylink.MerkleRoot}

\* C39: whenever CreateSkylinkFromSiafile returns an error the skylink it
\* returns is the zero skylink, and whenever it returns a non-zero skylink
\* without error outside a dry run the base sector of that skylink was
\* uploaded.
C39_SkylinkOnlyWithoutError ==
    Converted
    => /\ call.err # "nil" => call.returned = NoSkylink
       /\ (call.err = "nil" /\ call.returned # NoSkylink /\ ~call.sup.DryRun)
          => BaseSectorUploads(call.returned) # {}

(***************************************************************************)
(* The siafiles of an upload                                               *)
(***************************************************************************)

\* The call was an UploadSkyfile; the paths of its siafile and of its
\* extended siafile; the paths its steps uploaded to.
UploadedSkyfile == call.op = "UploadSkyfile"
UploadPaths == {call.sup.SiaPath, ExtendedSiaPath(call.sup.SiaPath)}
PathsUploadedTo ==
    {call.steps[i].up.SiaPath : i \in StepsOf({"callUploadStreamFromReader"})}
KeyRefused == call.err = "skykey not found"

C32_TemplateHasBranches ==
    written # NothingWritten
    => /\ written.json.MerkleBranches = MerkleBranches(written.block)
       /\ written.json.MerkleBranches # <<>>
       /\ Len(written.json.Transactions) = Len(written.block.Transactions)
       /\ \A i \in 1 .. Len(written.block.Transactions) :
             written.json.Transactions[i] = TransactionID(written.block.Transactions[i])
====
